---------------------------- MODULE Spec2Model ----------------------------
(***************************************************************************)
(* A model of quip_python.py: the content cache of a QuipDocument or       *)
(* QuipSpreadSheet, the resolution of logical addresses (list positions,   *)
(* column keys, row searches) to anchor identifiers, and the edit          *)
(* requests the public operations issue.                                   *)
(*                                                                         *)
(* Conventions.  A Python str is a sequence of character codes             *)
(* ("Date" is <<68, 97, 116, 101>>).  Python's None, where a str is        *)
(* expected, is the sequence NoneStr; where an index is expected, the      *)
(* number NoneIdx.  Python list indices are 0-based: the element of index  *)
(* i of a list l is l[i + 1] here.                                         *)
(***************************************************************************)
EXTENDS Integers, Sequences, FiniteSets, TLC

VARIABLES
    kind,                       \* "document" | "spreadsheet": the class of the thread object
    content_html,               \* QuipThread.content_html
    content_tree,               \* QuipThread.content_tree
    sheet_names,                \* QuipSpreadSheet.sheet_names
    content_sheet_dataframes,   \* QuipSpreadSheet.content_sheet_dataframes
    content_sheet_json,         \* QuipSpreadSheet.content_sheet_json
    pc,                         \* position of the caller: "idle", or inside a loop of a method
    call,                       \* the public call in progress or last made, with its arguments
    edits,                      \* the edit-document requests issued by that call, in order
    last,                       \* what the last step did (its remote outcome, the response)
    ret                         \* how the call ended and what it returned

vars == <<kind, content_html, content_tree, sheet_names, content_sheet_dataframes,
          content_sheet_json, pc, call, edits, last, ret>>

cache == <<content_html, content_tree, sheet_names, content_sheet_dataframes,
           content_sheet_json>>

(***************************************************************************)
(* Python values                                                           *)
(***************************************************************************)
NoneStr == <<-1>>
NoneIdx == -1

EmptyStr == <<>>

\* str.lower() / str.upper() on ASCII text
LowerChar(c) == IF c >= 65 /\ c <= 90 THEN c + 32 ELSE c
UpperChar(c) == IF c >= 97 /\ c <= 122 THEN c - 32 ELSE c
Lower(s) == [i \in DOMAIN s |-> LowerChar(s[i])]
Upper(s) == [i \in DOMAIN s |-> UpperChar(s[i])]

\* str.isdigit(): non-empty and every character a decimal digit
IsDigit(s) == Len(s) > 0 /\ \A i \in DOMAIN s : s[i] >= 48 /\ s[i] <= 57

\* int(s) of a string of decimal digits
RECURSIVE IntOf(_)
IntOf(s) == IF Len(s) = 0 THEN 0
            ELSE 10 * IntOf(SubSeq(s, 1, Len(s) - 1)) + (s[Len(s)] - 48)

\* str(n) of a non-negative int
RECURSIVE StrOfNat(_)
StrOfNat(n) == IF n < 10 THEN <<48 + n>>
               ELSE StrOfNat(n \div 10) \o <<48 + (n % 10)>>

\* str(x) of a str or None (str(None) is "None")
StrOf(x) == IF x = NoneStr THEN <<78, 111, 110, 101>> ELSE x

\* A dictionary key as callers pass it: a str, an int, or None.
StrKey(s) == [t |-> "str", s |-> s, n |-> 0]
IntKey(n) == [t |-> "int", s |-> EmptyStr, n |-> n]
NoneKey == [t |-> "none", s |-> EmptyStr, n |-> 0]

\* bool(key): None, "" and 0 are falsy
Truthy(k) == CASE k.t = "str" -> Len(k.s) > 0
               [] k.t = "int" -> k.n # 0
               [] OTHER -> FALSE

\* str(key)
StrOfKey(k) == CASE k.t = "str" -> k.s
                 [] k.t = "int" -> StrOfNat(k.n)
                 [] OTHER -> <<78, 111, 110, 101>>

\* list.index(x) as a 0-based index; the caller has checked x in l
IndexOf(l, x) == (CHOOSE i \in DOMAIN l : l[i] = x /\ \A j \in 1..(i - 1) : l[j] # x) - 1

Contains(l, x) == \E i \in DOMAIN l : l[i] = x

\* str.split(s, sep) for a separator of one character
RECURSIVE Split(_, _)
Split(s, sep) ==
    IF ~Contains(s, sep) THEN <<s>>
    ELSE <<SubSeq(s, 1, IndexOf(s, sep))>>
             \o Split(SubSeq(s, IndexOf(s, sep) + 2, Len(s)), sep)

\* int(s): decimal digits after an optional '-'; any other text raises
\* ValueError
IntRaises(s) == ~(IsDigit(s) \/ (Len(s) > 1 /\ s[1] = 45 /\ IsDigit(Tail(s))))
PyInt(s) == IF s[1] = 45 THEN 0 - IntOf(Tail(s)) ELSE IntOf(s)

(***************************************************************************)
(* QuipSpreadSheet._get_col_name_index                                     *)
(***************************************************************************)
\* the single-letter branch: ord('A') < char < ord('Z')
LetterIndex(h, default) ==
    LET char == UpperChar(h[1])
    IN  IF 65 < char /\ char < 90 THEN char - 65 + 1 ELSE default

\* lower_headers = [str(h).lower() for h in header_items]
LowerHeaders(header_items) ==
    [i \in DOMAIN header_items |-> Lower(StrOf(header_items[i]))]

GetColNameIndex(header_items, header, default) ==
    IF Truthy(header)
    THEN LET h == StrOfKey(header)
             lower_headers == LowerHeaders(header_items)
         IN  IF Contains(header_items, h) THEN IndexOf(header_items, h)
             ELSE IF Contains(lower_headers, Lower(h))
                  THEN IndexOf(lower_headers, Lower(h))
             ELSE IF IsDigit(h) THEN IntOf(h)
             ELSE IF Len(h) = 1 THEN LetterIndex(h, default)
             ELSE default
    ELSE default

(***************************************************************************)
(* Markup and the content tree                                             *)
(*                                                                         *)
(* An element is a record: its tag, its id and title attributes (NoneStr   *)
(* when absent), its own text (NoneStr when it has none) and its child     *)
(* elements in document order.  Markup (content_html, an html fragment of  *)
(* a response) is None or a str: the elements it spells, inside an outer   *)
(* <html> envelope or not.                                                 *)
(***************************************************************************)
Node(tag, id, title, text, kids) ==
    [tag |-> tag, id |-> id, title |-> title, style |-> NoneStr, text |-> text,
     kids |-> kids]

\* the element with a style attribute
Styled(node, style) == [node EXCEPT !.style = style]

Ul(id, items) == Node("ul", id, NoneStr, NoneStr, items)
Li(id, text, kids) == Node("li", id, NoneStr, text, kids)
Table(id, title, rows) == Node("table", id, title, NoneStr, rows)
Tr(id, cells) == Node("tr", id, NoneStr, NoneStr, cells)
Td(id, text) == Node("td", id, NoneStr, text, <<>>)
Th(id, text) == Node("th", id, NoneStr, text, <<>>)
P(id, text) == Node("p", id, NoneStr, text, <<>>)

NoNode == Node("", NoneStr, NoneStr, NoneStr, <<>>)

NoneHtml == [isNone |-> TRUE, wrapped |-> FALSE, body |-> <<>>]
Fragment(body) == [isNone |-> FALSE, wrapped |-> FALSE, body |-> body]

\* bool(html): None and "" are falsy
HtmlTruthy(html) == ~html.isNone /\ (html.wrapped \/ Len(html.body) > 0)

\* the concatenation of the fragments
RECURSIVE ConcatAll(_)
ConcatAll(seqs) == IF Len(seqs) = 0 THEN <<>> ELSE Head(seqs) \o ConcatAll(Tail(seqs))

\* _get_thread_html had it wrapped an empty content too
GetThreadHtmlAlwaysWraps(pages) ==
    [isNone |-> FALSE, wrapped |-> TRUE, body |-> ConcatAll(pages)]

\* QuipThread._get_thread_html: the fragments of the pages fetched, in order,
\* inside "<html>" ... "</html>", or None when they are all empty
GetThreadHtml(pages) ==
    LET html_content == ConcatAll(pages)
    IN  IF Len(html_content) > 0
        THEN [isNone |-> FALSE, wrapped |-> TRUE, body |-> html_content]
        ELSE NoneHtml

\* etree.parse(StringIO(html), etree.HTMLParser()): the parser supplies the
\* root element when the markup has none; markup that is None or empty has no
\* document and the parser raises
ParseRaises(html) == html.isNone \/ Len(html.body) = 0

Parse(html) == Node("html", NoneStr, NoneStr, NoneStr, html.body)

\* content_tree: the attribute is unset, None, or a tree
TreeOf(root) == [status |-> "tree", root |-> root]
NoTree == [status |-> "none", root |-> NoNode]

\* reload_content: try: content_tree = etree.parse(...) except: content_tree = None
ParseOrNone(html) == IF ParseRaises(html) THEN NoTree ELSE TreeOf(Parse(html))

\* element.iter(): the element and its descendants in document order
RECURSIVE PreOrder(_)
RECURSIVE PreOrderAll(_)
PreOrder(node) == <<node>> \o PreOrderAll(node.kids)
PreOrderAll(nodes) ==
    IF Len(nodes) = 0 THEN <<>> ELSE PreOrder(Head(nodes)) \o PreOrderAll(Tail(nodes))

SelectTag(nodes, tag) == SelectSeq(nodes, LAMBDA n : n.tag = tag)

\* element.iter(tag)
Iter(node, tag) == SelectTag(PreOrder(node), tag)

\* element.iterfind(".//tag"): the descendants only
IterFind(node, tag) == SelectTag(PreOrderAll(node.kids), tag)

\* element.itertext(): the texts of the element and its descendants
IterText(node) ==
    LET texts == [i \in DOMAIN PreOrder(node) |-> PreOrder(node)[i].text]
    IN  SelectSeq(texts, LAMBDA t : t # NoneStr)

(***************************************************************************)
(* Results of a method: a value, or the exception it raised                *)
(***************************************************************************)
Returned(v) == [exc |-> "", val |-> v]
Raised(e) == [exc |-> e, val |-> NoneStr]

\* l[idx] with Python's index rules; the caller has checked InRange
InRange(l, idx) == idx >= -Len(l) /\ idx < Len(l)
PyAt(l, idx) == IF idx >= 0 THEN l[idx + 1] ELSE l[Len(l) + idx + 1]

\* element.attrib["id"]
AttribId(node) == IF node.id = NoneStr THEN Raised("KeyError") ELSE Returned(node.id)

(***************************************************************************)
(* QuipDocument: list-position resolution                                  *)
(***************************************************************************)
\* _get_section_elementTree: the first element of the tree with that id, or None
SectionMatches(tree, section_id) ==
    SelectSeq(PreOrderAll(tree.root.kids), LAMBDA n : n.id = section_id)

HasSection(tree, section_id) == Len(SectionMatches(tree, section_id)) > 0

GetSectionElementTree(tree, section_id) == Head(SectionMatches(tree, section_id))

\* _get_list_item_section_ids: list(list_tree.iter("li")); the caller has
\* checked HasSection (list_tree is None otherwise and .iter raises)
GetListItemSectionIds(tree, section_id) ==
    Iter(GetSectionElementTree(tree, section_id), "li")

GetFirstListItemSectionId(tree, section_id) ==
    IF ~HasSection(tree, section_id) THEN Raised("AttributeError")
    ELSE LET items == GetListItemSectionIds(tree, section_id)
         IN  IF Len(items) > 0 THEN AttribId(PyAt(items, 0)) ELSE Returned(NoneStr)

GetLastListItemSectionId(tree, section_id) ==
    IF ~HasSection(tree, section_id) THEN Raised("AttributeError")
    ELSE LET items == GetListItemSectionIds(tree, section_id)
         IN  IF Len(items) > 0 THEN AttribId(PyAt(items, -1)) ELSE Returned(NoneStr)

GetNthListItemSectionId(tree, list_section_id, idx) ==
    IF ~HasSection(tree, list_section_id) THEN Raised("AttributeError")
    ELSE LET items == GetListItemSectionIds(tree, list_section_id)
         IN  IF Len(items) > 0
             THEN IF InRange(items, idx) THEN AttribId(PyAt(items, idx))
                  ELSE Raised("IndexError")
             ELSE Returned(NoneStr)

(***************************************************************************)
(* QuipSpreadSheet: sheets, header rows, rows built from a mapping         *)
(***************************************************************************)
\* bool(s) of a str or None
StrTruthy(s) == s # NoneStr /\ Len(s) > 0

TitleMatches(tree, sheet_name) ==
    SelectSeq(PreOrderAll(tree.root.kids), LAMBDA n : n.title = sheet_name)

\* _sheet_name_to_tree: the first element with that title, or the first table
\* when no name is given; NoNode is None.  The caller has checked that
\* content_tree is a tree.
SheetNameToTree(tree, sheet_name) ==
    IF StrTruthy(sheet_name)
    THEN IF Len(TitleMatches(tree, sheet_name)) = 0 THEN NoNode
         ELSE Head(TitleMatches(tree, sheet_name))
    ELSE IF Len(Iter(tree.root, "table")) = 0 THEN NoNode
         ELSE Head(Iter(tree.root, "table"))

\* (list(x.itertext()) or [None])[0]
FirstText(x) == IF Len(IterText(x)) = 0 THEN NoneStr ELSE Head(IterText(x))

\* _get_row_tree_values
GetRowTreeValues(row_tree) == [i \in DOMAIN row_tree.kids |-> FirstText(row_tree.kids[i])]

\* _get_sheet_tree_col_names: the values of the first row; without a sheet
\* (None) .iterfind raises, without a row [0] raises
ColNamesRaise(tree, sheet_tree) ==
    IF tree.status # "tree" \/ sheet_tree = NoNode THEN "AttributeError"
    ELSE IF Len(IterFind(sheet_tree, "tr")) = 0 THEN "IndexError"
    ELSE ""

GetSheetTreeColNames(sheet_tree) == GetRowTreeValues(Head(IterFind(sheet_tree, "tr")))

\* an ordered mapping (dict): a sequence of <<key, value>> with distinct keys
DictKeys(d) == [i \in DOMAIN d |-> d[i][1]]
DictValues(d) == [i \in DOMAIN d |-> d[i][2]]

\* d[key]; the caller has checked that the key is in d
DictGet(d, key) == d[IndexOf(DictKeys(d), key) + 1][2]

\* d.setdefault(key, value): the value of an existing key is kept
DictSetDefault(d, key, value) ==
    IF Contains(DictKeys(d), key) THEN d ELSE Append(d, <<key, value>>)

\* d[key] = value: the value of an existing key is replaced in place, a new
\* key goes to the end
DictSet(d, key, value) ==
    IF Contains(DictKeys(d), key)
    THEN [i \in DOMAIN d |-> IF d[i][1] = key THEN <<key, value>> ELSE d[i]]
    ELSE Append(d, <<key, value>>)

\* _dict_to_html, the first loop: indexed_items is a function from the indices
\* taken to their values, extra_items the values left over
NoItems == [indexed_items |-> <<>>, extra_items |-> <<>>]

HasIndex(indexed_items, index) == \E i \in DOMAIN indexed_items : indexed_items[i][1] = index

\* the first loop had it let a later value take the index of an earlier one
PlaceItemLastWins(acc, index, val) ==
    IF index = NoneIdx THEN [acc EXCEPT !.extra_items = Append(@, val)]
    ELSE [acc EXCEPT !.indexed_items =
              Append(SelectSeq(@, LAMBDA item : item[1] # index), <<index, val>>)]

PlaceItem(acc, index, val) ==
    IF index = NoneIdx \/ HasIndex(acc.indexed_items, index)
    THEN [acc EXCEPT !.extra_items = Append(@, val)]
    ELSE [acc EXCEPT !.indexed_items = Append(@, <<index, val>>)]

RECURSIVE PlaceItems(_, _, _)
PlaceItems(acc, headers, updates_dct) ==
    IF Len(updates_dct) = 0 THEN acc
    ELSE PlaceItems(PlaceItem(acc, GetColNameIndex(headers, Head(updates_dct)[1], NoneIdx),
                              Head(updates_dct)[2]),
                    headers, Tail(updates_dct))

IndexedValue(indexed_items, index) ==
    (CHOOSE i \in DOMAIN indexed_items : indexed_items[i][1] = index)

MaxIndex(indexed_items) ==
    CHOOSE m \in {indexed_items[i][1] : i \in DOMAIN indexed_items} :
        \A i \in DOMAIN indexed_items : indexed_items[i][1] <= m

\* _dict_to_html, the second loop, from index i on: the cells built and the
\* extra items still queued
RECURSIVE FillCells(_, _, _, _, _)
FillCells(i, max, indexed_items, extra_items, cells) ==
    IF i > max THEN cells \o extra_items
    ELSE IF HasIndex(indexed_items, i)
         THEN FillCells(i + 1, max, indexed_items, extra_items,
                        Append(cells, indexed_items[IndexedValue(indexed_items, i)][2]))
    ELSE IF Len(extra_items) > 0
         THEN FillCells(i + 1, max, indexed_items, Tail(extra_items),
                        Append(cells, Head(extra_items)))
    ELSE FillCells(i + 1, max, indexed_items, extra_items, Append(cells, EmptyStr))

\* _dict_to_html had it laid the values out in the order of the mapping
DictToCellsInMappingOrder(headers, updates_dct) == DictValues(updates_dct)

\* the cells of the row _dict_to_html builds against a header sequence
DictToCells(headers, updates_dct) ==
    LET Cells(acc) ==
            IF Len(acc.indexed_items) > 0
            THEN FillCells(0, MaxIndex(acc.indexed_items), acc.indexed_items,
                           acc.extra_items, <<>>)
            ELSE acc.extra_items
    IN  Cells(PlaceItems(NoItems, headers, updates_dct))

\* the header sequence _dict_to_html resolves against: the first row of the
\* sheet without its first cell
DictHeaders(tree, sheet_name) ==
    LET names == GetSheetTreeColNames(SheetNameToTree(tree, sheet_name))
    IN  SubSeq(names, 2, Len(names))

\* _dict_to_html: "<tr>" + "<td>%s</td>" for each cell + "</tr>"
RowHtml(cells) == [tag |-> "tr", cells |-> cells]

DictToHtml(tree, updates_dct, sheet_name) ==
    LET Row(raises) ==
            IF raises # "" THEN Raised(raises)
            ELSE Returned(RowHtml(DictToCells(DictHeaders(tree, sheet_name), updates_dct)))
    IN  IF tree.status # "tree" THEN Raised("AttributeError")
        ELSE Row(ColNamesRaise(tree, SheetNameToTree(tree, sheet_name)))

\* _list_to_html of one row
ListToHtml(row) == RowHtml(row)

\* content that is plain text, and the content None
Text(s) == [tag |-> "text", cells |-> <<s>>]
NoContent == [tag |-> "none", cells |-> <<>>]

\* _get_nth_row_section_id had it counted the rows from the first row after
\* the header row
GetNthRowSectionIdOfDataRows(sheet_tree, idx) ==
    IF sheet_tree = NoNode THEN Raised("AttributeError")
    ELSE LET items == Tail(Iter(sheet_tree, "tr"))
         IN  IF Len(items) > 0
             THEN IF InRange(items, idx) THEN AttribId(PyAt(items, idx))
                  ELSE Raised("IndexError")
             ELSE Returned(NoneStr)

\* _get_nth_row_section_id: list(sheet_tree.iter("tr"))[idx].attrib["id"], None
\* for a sheet without rows; sheet_tree is NoNode when it is None
GetNthRowSectionId(sheet_tree, idx) ==
    IF sheet_tree = NoNode THEN Raised("AttributeError")
    ELSE LET items == Iter(sheet_tree, "tr")
         IN  IF Len(items) > 0
             THEN IF InRange(items, idx) THEN AttribId(PyAt(items, idx))
                  ELSE Raised("IndexError")
             ELSE Returned(NoneStr)

\* _get_row_section_ids: [x.attrib.get("id", "") for x in row_tree]
GetRowSectionIds(row_tree) ==
    [i \in DOMAIN row_tree.kids |->
        IF row_tree.kids[i].id = NoneStr THEN EmptyStr ELSE row_tree.kids[i].id]

\* _find_row_tree, the loop over the rows: the first row whose cell of that
\* index is a <td> whose first text is the value, ignoring case
NotFound == [exc |-> "", found |-> FALSE, row |-> NoNode]
Found(row) == [exc |-> "", found |-> TRUE, row |-> row]
FindRaised(e) == [exc |-> e, found |-> FALSE, row |-> NoNode]

RECURSIVE ScanRows(_, _, _)
ScanRows(rows, index, value) ==
    IF Len(rows) = 0 THEN NotFound
    ELSE LET row == Head(rows)
         IN  IF Len(row.kids) <= index THEN ScanRows(Tail(rows), index, value)
             ELSE LET cell == row.kids[index + 1]
                  IN  IF cell.tag # "td" THEN ScanRows(Tail(rows), index, value)
                      ELSE IF Len(IterText(cell)) = 0 THEN FindRaised("IndexError")
                      ELSE IF value = NoneStr THEN FindRaised("AttributeError")
                      ELSE IF Lower(Head(IterText(cell))) = Lower(value) THEN Found(row)
                      ELSE ScanRows(Tail(rows), index, value)

\* _find_row_tree; the caller has checked ColNamesRaise
FindRowTree(sheet_tree, header, value) ==
    LET headers == GetSheetTreeColNames(sheet_tree)
        index == GetColNameIndex(headers, header, 0)
    IN  ScanRows(IterFind(sheet_tree, "tr"), index, value)

\* the loop had it skipped no update for its index 0
SkipsUpdatePastRowOnly(index, section_ids) ==
    index >= Len(section_ids) \/ Len(section_ids[index + 1]) = 0

\* sheet_search_update_cells, the loop: an update is skipped when its key
\* resolves to index 0 or past the row, or to a cell without id
SkipsUpdate(index, section_ids) ==
    index = 0 \/ index >= Len(section_ids) \/ Len(section_ids[index + 1]) = 0

(***************************************************************************)
(* QuipSpreadSheet: the state derived from the content                     *)
(***************************************************************************)
\* text.replace(zero-width space, "")
StripZwsp(s) == SelectSeq(s, LAMBDA c : c # 8203)

\* m in s, for strings
HasSubstring(s, m) ==
    \E i \in 1..(Len(s) - Len(m) + 1) : SubSeq(s, i, i + Len(m) - 1) = m

\* "background-color:#"
ColorMarker == <<98, 97, 99, 107, 103, 114, 111, 117, 110, 100, 45, 99, 111, 108, 111, 114, 58, 35>>

\* s[a:b] for 0 <= a <= b
Slice(s, a, b) ==
    IF a >= Len(s) THEN <<>> ELSE SubSeq(s, a + 1, IF b < Len(s) THEN b ELSE Len(s))

\* parse_sheet_contents, data["color"]: style[sharp + 1:sharp + 7] for
\* sharp = style.find("#") when the style holds the marker; NoneStr when the
\* cell gets no color entry
CellColor(style) ==
    IF StrTruthy(style) /\ HasSubstring(style, ColorMarker)
    THEN LET sharp == IndexOf(style, 35)
         IN  Slice(style, sharp + 1, sharp + 7)
    ELSE NoneStr

\* parse_sheet_contents, the cells of one row from cell i on, as an ordered
\* mapping from header to cell; a cell without text, or past the headers,
\* raises
RECURSIVE ParseCells(_, _, _, _)
ParseCells(headers, kids, i, cells) ==
    IF i > Len(kids) THEN Returned(cells)
    ELSE LET cell == kids[i]
         IN  IF cell.tag # "td" THEN ParseCells(headers, kids, i + 1, cells)
             ELSE IF Len(IterText(cell)) = 0 THEN Raised("IndexError")
             ELSE IF i > Len(headers) THEN Raised("IndexError")
             ELSE ParseCells(headers, kids, i + 1,
                             DictSet(cells, headers[i],
                                     [id |-> cell.id,
                                      content |-> StripZwsp(Head(IterText(cell))),
                                      color |-> CellColor(cell.style)]))

\* parse_sheet_contents, the loop over the rows
RECURSIVE ParseRows(_, _, _)
ParseRows(headers, trs, rows) ==
    IF Len(trs) = 0 THEN Returned(rows)
    ELSE LET Row(cells) ==
                 IF cells.exc # "" THEN cells
                 ELSE ParseRows(headers, Tail(trs),
                                IF Len(cells.val) > 0
                                THEN Append(rows, [id |-> Head(trs).id, cells |-> cells.val])
                                ELSE rows)
         IN  Row(ParseCells(headers, Head(trs).kids, 1, <<>>))

\* parse_sheet_contents
ParseSheetContents(tree, sheet_name) ==
    LET Sheet(sheet_tree, headers, rows) ==
            IF rows.exc # "" THEN rows
            ELSE Returned([id |-> sheet_tree.id, headers |-> headers, rows |-> rows.val])
        Rows(sheet_tree, headers) ==
            Sheet(sheet_tree, headers, ParseRows(headers, IterFind(sheet_tree, "tr"), <<>>))
        Headers(sheet_tree, raises) ==
            IF raises # "" THEN Raised(raises)
            ELSE Rows(sheet_tree, GetSheetTreeColNames(sheet_tree))
        Named(sheet_tree) == Headers(sheet_tree, ColNamesRaise(tree, sheet_tree))
    IN  IF tree.status # "tree" THEN Raised("AttributeError")
        ELSE Named(SheetNameToTree(tree, sheet_name))

\* the tables of the markup, and the titles of those that have one
TablesOf(html) == SelectTag(PreOrderAll(html.body), "table")
TableNames(html) ==
    LET titled == SelectSeq(TablesOf(html), LAMBDA t : t.title # NoneStr)
    IN  [i \in DOMAIN titled |-> titled[i].title]

\* the DataFrame read from a table: the texts of its rows
DataFrame(table) ==
    LET trs == IterFind(table, "tr")
    IN  [i \in DOMAIN trs |-> GetRowTreeValues(trs[i])]

\* _get_sheets_as_dataframes: zip(table names, tables read) into a dict
RECURSIVE ZipFrames(_, _, _)
ZipFrames(names, tables, dct) ==
    IF Len(names) = 0 \/ Len(tables) = 0 THEN dct
    ELSE ZipFrames(Tail(names), Tail(tables),
                   DictSet(dct, Head(names), DataFrame(Head(tables))))

GetSheetsAsDataframes(html) ==
    IF html.isNone THEN Raised("TypeError")
    ELSE IF Len(TablesOf(html)) = 0 THEN Raised("ValueError")
    ELSE Returned(ZipFrames(TableNames(html), TablesOf(html), <<>>))

\* _get_sheets_as_json
RECURSIVE SheetsJson(_, _, _)
SheetsJson(tree, names, dct) ==
    IF Len(names) = 0 THEN Returned(dct)
    ELSE LET Update(sheet) ==
                 IF sheet.exc # "" THEN sheet
                 ELSE SheetsJson(tree, Tail(names), DictSet(dct, Head(names), sheet.val))
         IN  Update(ParseSheetContents(tree, Head(names)))

GetSheetsAsJson(html, tree) ==
    IF html.isNone THEN Raised("TypeError")
    ELSE SheetsJson(tree, TableNames(html), <<>>)

(***************************************************************************)
(* Edit requests and the reload of the content                             *)
(*                                                                         *)
(* An exchange is what the service does with one edit call: the outcome    *)
(* of the edit-document request ("ok" or the error _fetch_json raises),    *)
(* the html of its response and, for a re-fetch, the outcome and the       *)
(* pages of _get_thread_html.                                              *)
(***************************************************************************)
AFTER_DOC == 0
BEFORE_DOC == 1
AFTER_SECTION == 2
BEFORE_SECTION == 3
REPLACE_SECTION == 4
DELETE_SECTION == 5
AFTER_RANGE == 6
BEFORE_RANGE == 7
REPLACE_RANGE == 8
DELETE_RANGE == 9

Markdown == <<109, 97, 114, 107, 100, 111, 119, 110>>
Html == <<104, 116, 109, 108>>

\* edit_thread and edit_range had they sent the anchor as the caller gave it
SanitizeKeepsAnchor(section_id) ==
    IF ~StrTruthy(section_id) THEN NoneStr ELSE section_id

\* section_id.replace(";", "_"), None for a section_id that is None or ""
Sanitize(section_id) ==
    IF ~StrTruthy(section_id) THEN NoneStr
    ELSE [i \in DOMAIN section_id |-> IF section_id[i] = 59 THEN 95 ELSE section_id[i]]

\* edit_thread: the request it posts
EditThreadRequest(content, location, format, section_id) ==
    [op |-> "edit_thread", content |-> content, location |-> location,
     format |-> format, anchor |-> section_id, sent_anchor |-> Sanitize(section_id)]

\* edit_range: the request it posts
EditRangeRequest(content, location, format, document_range) ==
    [op |-> "edit_range", content |-> content, location |-> location,
     format |-> format, anchor |-> document_range,
     sent_anchor |-> Sanitize(document_range)]

Failures == {"QuipError", "HTTPError", "TimeoutError"}

(***************************************************************************)
(* Quip._fetch_json: the fields of a request and the retries               *)
(***************************************************************************)
\* self.id of the thread, "T"
ThreadId == <<84>>

\* "<tr>" + "<td>%s</td>" for each cell + "</tr>" as text
RECURSIVE RenderCells(_)
RenderCells(cells) ==
    IF Len(cells) = 0 THEN <<>>
    ELSE <<60, 116, 100, 62>> \o Head(cells) \o <<60, 47, 116, 100, 62>>
             \o RenderCells(Tail(cells))

\* the content argument as the Python value it is: a str, or None
ContentValue(content) ==
    CASE content.tag = "text" -> StrKey(content.cells[1])
      [] content.tag = "tr" ->
             StrKey(<<60, 116, 114, 62>> \o RenderCells(content.cells) \o <<60, 47, 116, 114, 62>>)
      [] OTHER -> NoneKey

\* edit_thread: args = {"thread_id": ..., "content": ..., "location": ...,
\* "format": ..., "section_id": ...}; a location that is None is NoneIdx
EditThreadArgs(request) ==
    <<<<"thread_id", StrKey(ThreadId)>>,
      <<"content", ContentValue(request.content)>>,
      <<"location", IF request.location = NoneIdx THEN NoneKey ELSE IntKey(request.location)>>,
      <<"format", StrKey(request.format)>>,
      <<(IF request.op = "edit_range" THEN "document_range" ELSE "section_id"),
        IF request.sent_anchor = NoneStr THEN NoneKey ELSE StrKey(request.sent_anchor)>>>>

\* the filter had it kept the truthy values alone
TransmitsTruthyOnly(v) == Truthy(v)

\* v or isinstance(v, int)
Transmits(v) == Truthy(v) \/ v.t = "int"

\* s.encode("utf-8") of text in the Basic Multilingual Plane
RECURSIVE Utf8(_)
Utf8(s) ==
    IF Len(s) = 0 THEN <<>>
    ELSE (IF Head(s) < 128 THEN <<Head(s)>>
          ELSE IF Head(s) < 2048 THEN <<192 + (Head(s) \div 64), 128 + (Head(s) % 64)>>
          ELSE <<224 + (Head(s) \div 4096), 128 + ((Head(s) \div 64) % 64),
                 128 + (Head(s) % 64)>>)
         \o Utf8(Tail(s))

\* _clean: str(v) if isinstance(v, int) else v.encode("utf-8")
Clean(v) == IF v.t = "int" THEN StrOfNat(v.n) ELSE Utf8(v.s)

\* urlencode of one value (quote_plus): letters, digits and "_.-~" stay, a
\* space becomes "+", any other byte "%XX"
HexDigit(n) == IF n < 10 THEN 48 + n ELSE 55 + n
QuoteByte(b) ==
    IF (b >= 48 /\ b <= 57) \/ (b >= 65 /\ b <= 90) \/ (b >= 97 /\ b <= 122)
           \/ b \in {95, 46, 45, 126}
    THEN <<b>>
    ELSE IF b = 32 THEN <<43>>
    ELSE <<37, HexDigit(b \div 16), HexDigit(b % 16)>>

RECURSIVE QuotePlus(_)
QuotePlus(bytes) ==
    IF Len(bytes) = 0 THEN <<>> ELSE QuoteByte(Head(bytes)) \o QuotePlus(Tail(bytes))

\* _fetch_json: the fields of request.data, in the order of post_data
PostFields(post_data) ==
    LET kept == SelectSeq(post_data, LAMBDA item : Transmits(item[2]))
    IN  [i \in DOMAIN kept |-> <<kept[i][1], QuotePlus(Clean(kept[i][2]))>>]

\* @retry(TimeoutError, tries=3, delay=1, backoff=2)
Tries == 3
Delay == 1
Backoff == 2

\* the decorator had it retried after any failure
RetriesOnAnyFailure(outcome) == outcome # "ok"

\* the exceptions the decorator catches
RetriesOn(outcome) == outcome = "TimeoutError"

Failed(outcome) == [outcome |-> outcome, html |-> NoneHtml, refetch |-> "", pages |-> <<>>]
Answered(html) == [outcome |-> "ok", html |-> html, refetch |-> "", pages |-> <<>>]
Refetched(html, refetch, pages) ==
    [outcome |-> "ok", html |-> html, refetch |-> refetch, pages |-> pages]

\* the cache of the thread as a record
CurCache ==
    [content_html |-> content_html, content_tree |-> content_tree,
     sheet_names |-> sheet_names, content_sheet_dataframes |-> content_sheet_dataframes,
     content_sheet_json |-> content_sheet_json]

SetCache(c) ==
    /\ content_html' = c.content_html
    /\ content_tree' = c.content_tree
    /\ sheet_names' = c.sheet_names
    /\ content_sheet_dataframes' = c.content_sheet_dataframes
    /\ content_sheet_json' = c.content_sheet_json

Outcome(c, exc) == [cache |-> c, exc |-> exc]

\* reload_content, its first lines: the html of the response when it is
\* truthy, else what _get_thread_html returns
ReloadedHtml(x) == IF HtmlTruthy(x.html) THEN x.html ELSE GetThreadHtml(x.pages)

RefetchFails(x) == ~HtmlTruthy(x.html) /\ x.refetch # "ok"

\* QuipDocument.reload_content; markdownify(None) raises TypeError
DocReloadContent(c, x) ==
    LET Reload(h) ==
            Outcome([c EXCEPT !.content_html = h, !.content_tree = ParseOrNone(h)],
                    IF h.isNone THEN "TypeError" ELSE "")
    IN  IF RefetchFails(x) THEN Outcome(c, x.refetch) ELSE Reload(ReloadedHtml(x))

\* QuipSpreadSheet.reload_content
SheetReloadContent(c, x) ==
    LET Json(c2, json) ==
            IF json.exc # "" THEN Outcome(c2, json.exc)
            ELSE Outcome([c2 EXCEPT !.content_sheet_json = json.val], "")
        Frames(h, c1, frames) ==
            IF frames.exc # "" THEN Outcome(c1, frames.exc)
            ELSE Json([c1 EXCEPT !.content_sheet_dataframes = frames.val],
                      GetSheetsAsJson(h, c1.content_tree))
        Tree(h, tree) ==
            Frames(h, [c EXCEPT !.content_html = h, !.content_tree = tree,
                                !.sheet_names = DictKeys(c.content_sheet_dataframes)],
                   GetSheetsAsDataframes(h))
        Reload(h) == Tree(h, ParseOrNone(h))
    IN  IF RefetchFails(x) THEN Outcome(c, x.refetch) ELSE Reload(ReloadedHtml(x))

\* doc_edit_content: edit_thread, then reload_content(response.get('html'))
DocEditContent(c, x) ==
    IF x.outcome # "ok" THEN Outcome(c, x.outcome) ELSE DocReloadContent(c, x)

\* sheet_edit_content had it dropped the content when the edit fails
SheetEditContentDropsContent(c, x) ==
    IF x.outcome # "ok"
    THEN Outcome([c EXCEPT !.content_html = NoneHtml, !.content_tree = NoTree], x.outcome)
    ELSE SheetReloadContent(c, x)

\* sheet_edit_content
SheetEditContent(c, x) ==
    IF x.outcome # "ok" THEN Outcome(c, x.outcome) ELSE SheetReloadContent(c, x)

\* content_*_range: return self.edit_range(...)
RangeEditContent(c, x) ==
    IF x.outcome # "ok" THEN Outcome(c, x.outcome) ELSE Outcome(c, "")

\* the HTTP status of a successful response, 200, as the methods return it
StatusOk == <<50, 48, 48>>

\* the state __init__ leaves for a thread whose pages hold the body
Loaded(k, body) ==
    LET html == GetThreadHtml(<<body>>)
    IN  /\ kind = k
        /\ content_html = html
        /\ content_tree = ParseOrNone(html)
        /\ content_sheet_dataframes =
              IF k = "spreadsheet" THEN GetSheetsAsDataframes(html).val ELSE <<>>
        /\ sheet_names = DictKeys(content_sheet_dataframes)
        /\ content_sheet_json =
              IF k = "spreadsheet" THEN GetSheetsAsJson(html, content_tree).val ELSE <<>>

(***************************************************************************)
(* Documents the service may hold                                          *)
(***************************************************************************)
\* <ul id="L"><li id="a"/><li id="b"/><li id="c"/></ul>
DocFlat == <<Ul(<<76>>, <<Li(<<97>>, <<120>>, <<>>), Li(<<98>>, <<121>>, <<>>),
                         Li(<<99>>, <<122>>, <<>>)>>)>>

\* <ul id="L"><li id="a"><ul id="M"><li id="m"/></ul></li><li id="b"/></ul>
DocNested == <<Ul(<<76>>, <<Li(<<97>>, <<120>>, <<Ul(<<77>>, <<Li(<<109>>, <<119>>, <<>>)>>)>>),
                           Li(<<98>>, <<121>>, <<>>)>>)>>

\* <ul id="L"></ul><p id="p">x</p>
DocEmptyList == <<Ul(<<76>>, <<>>), P(<<112>>, <<120>>)>>

\* <p id="p">x</p>
DocNoList == <<P(<<112>>, <<120>>)>>

DocBodies == {DocFlat, DocNested, DocEmptyList, DocNoList}

\* the anchors a caller may name: the lists "L" and "M", the item "a", and "Z",
\* an anchor of no document
ListAnchors == {<<76>>, <<77>>, <<97>>, <<90>>}

\* list item indices callers pass run over -MaxIdx .. MaxIdx
MaxIdx == 4

\* no remote call was made by the last step
NoLast == [op |-> "", outcome |-> "", html |-> NoneHtml, refetch |-> "",
           refetched |-> NoneHtml]
NoCall == [op |-> ""]
NotCalled == Raised("")

(***************************************************************************)
(* SpecList: the list-position resolvers of a QuipDocument, called on the  *)
(* documents above                                                         *)
(***************************************************************************)
InitList ==
    /\ \E body \in DocBodies : Loaded("document", body)
    /\ pc = "idle"
    /\ call = NoCall
    /\ edits = <<>>
    /\ last = NoLast
    /\ ret = NotCalled

get_first_list_item_section_id ==
    /\ pc = "idle"
    /\ \E section_id \in ListAnchors :
          /\ pc' = "returned"
          /\ call' = [op |-> "_get_first_list_item_section_id",
                      section_id |-> section_id, idx |-> 0]
          /\ ret' = GetFirstListItemSectionId(content_tree, section_id)
          /\ UNCHANGED <<kind, cache, edits, last>>

get_last_list_item_section_id ==
    /\ pc = "idle"
    /\ \E section_id \in ListAnchors :
          /\ pc' = "returned"
          /\ call' = [op |-> "_get_last_list_item_section_id",
                      section_id |-> section_id, idx |-> 0]
          /\ ret' = GetLastListItemSectionId(content_tree, section_id)
          /\ UNCHANGED <<kind, cache, edits, last>>

get_nth_list_item_section_id ==
    /\ pc = "idle"
    /\ \E section_id \in ListAnchors, idx \in (-MaxIdx)..MaxIdx :
          /\ pc' = "returned"
          /\ call' = [op |-> "_get_nth_list_item_section_id",
                      section_id |-> section_id, idx |-> idx]
          /\ ret' = GetNthListItemSectionId(content_tree, section_id, idx)
          /\ UNCHANGED <<kind, cache, edits, last>>

NextList ==
    \/ get_first_list_item_section_id
    \/ get_last_list_item_section_id
    \/ get_nth_list_item_section_id

SpecList == InitList /\ [][NextList]_vars

\* the list call made last, the list it named and the items the resolvers see
IsListCall == call.op \in {"_get_first_list_item_section_id",
                           "_get_last_list_item_section_id",
                           "_get_nth_list_item_section_id"}
ListPresent == IsListCall /\ HasSection(content_tree, call.section_id)
ListItems == GetListItemSectionIds(content_tree, call.section_id)
\* the li children of the list element
ListChildItems == SelectTag(GetSectionElementTree(content_tree, call.section_id).kids, "li")

\* C3 as stated: with N the number of li children of L (N >= 1),
\* first = nth(0) and last = nth(N-1) = nth(-1)
C3_FirstLastNthOverChildren ==
    (ListPresent /\ Len(ListChildItems) >= 1) =>
        LET L == call.section_id
            N == Len(ListChildItems)
        IN  /\ call.op = "_get_first_list_item_section_id" =>
                ret = GetNthListItemSectionId(content_tree, L, 0)
            /\ call.op = "_get_last_list_item_section_id" =>
                /\ ret = GetNthListItemSectionId(content_tree, L, N - 1)
                /\ ret = GetNthListItemSectionId(content_tree, L, -1)

\* With N the number of li elements under L, the items of nested lists
\* included (N >= 1), first = nth(0) and last = nth(N-1) = nth(-1), and
\* these are the ids of the first and the last of those elements
ListPositionsOverDescendants ==
    (ListPresent /\ Len(ListItems) >= 1) =>
        LET L == call.section_id
            N == Len(ListItems)
        IN  /\ call.op = "_get_first_list_item_section_id" =>
                /\ ret = GetNthListItemSectionId(content_tree, L, 0)
                /\ ret = Returned(ListItems[1].id)
            /\ call.op = "_get_last_list_item_section_id" =>
                /\ ret = GetNthListItemSectionId(content_tree, L, N - 1)
                /\ ret = GetNthListItemSectionId(content_tree, L, -1)
                /\ ret = Returned(ListItems[N].id)

\* C4 as stated: resolving an absent item (a list that is not in the tree, a
\* list without items, an index outside -N..N-1) returns None
C4_AbsentItemYieldsNone ==
    (IsListCall /\ (~ListPresent \/ Len(ListItems) = 0
                    \/ (call.op = "_get_nth_list_item_section_id"
                        /\ ~InRange(ListItems, call.idx)))) =>
        ret = Returned(NoneStr)

(***************************************************************************)
(* SpecCol: _get_col_name_index on header sequences and keys               *)
(***************************************************************************)
Date == <<68, 97, 116, 101>>
Amount == <<65, 109, 111, 117, 110, 116>>

\* header sequences: ["Date", "Amount"]; ["C", "date", "Date"]; [];
\* [None, "2", "Z"] (a header cell without text reads as None)
HeaderSeqs == {<<Date, Amount>>,
               <<<<67>>, <<100, 97, 116, 101>>, Date>>,
               <<>>,
               <<NoneStr, <<50>>, <<90>>>>}

\* keys: "Date", "DATE", "date", "amount", "A", "a", "B", "b", "c", "Y", "y",
\* "Z", "z", "2", "10", "07", "", "Ab", "@", "[", "none", the ints 0, 2 and 10,
\* and None
ColKeys == {StrKey(s) : s \in {Date, <<68, 65, 84, 69>>, <<100, 97, 116, 101>>,
                              <<97, 109, 111, 117, 110, 116>>,
                              <<65>>, <<97>>, <<66>>, <<98>>, <<99>>, <<89>>, <<121>>,
                              <<90>>, <<122>>, <<50>>, <<49, 48>>, <<48, 55>>, <<>>,
                              <<65, 98>>, <<64>>, <<91>>, <<110, 111, 110, 101>>}}
           \cup {IntKey(0), IntKey(2), IntKey(10), NoneKey}

\* the defaults the callers pass: 0 and None
ColDefaults == {0, NoneIdx}

InitCol ==
    /\ kind = "none"
    /\ content_html = NoneHtml
    /\ content_tree = NoTree
    /\ sheet_names = <<>>
    /\ content_sheet_dataframes = <<>>
    /\ content_sheet_json = <<>>
    /\ pc = "idle"
    /\ call = NoCall
    /\ edits = <<>>
    /\ last = NoLast
    /\ ret = Returned(NoneIdx)

get_col_name_index ==
    /\ pc = "idle"
    /\ \E header_items \in HeaderSeqs, header \in ColKeys, default \in ColDefaults :
          /\ pc' = "returned"
          /\ call' = [op |-> "_get_col_name_index", header_items |-> header_items,
                      header |-> header, default |-> default]
          /\ ret' = Returned(GetColNameIndex(header_items, header, default))
          /\ UNCHANGED <<kind, cache, edits, last>>

NextCol == get_col_name_index

SpecCol == InitCol /\ [][NextCol]_vars

IsColCall == call.op = "_get_col_name_index"

\* the 0-based index of the first header satisfying a test, for the claims
FirstIndexWhere(header_items, Test(_)) ==
    (CHOOSE i \in DOMAIN header_items :
        Test(header_items[i]) /\ \A j \in 1..(i - 1) : ~Test(header_items[j])) - 1

IsLetter(c) == (c >= 65 /\ c <= 90) \/ (c >= 97 /\ c <= 122)

\* the alphabetic column index of a letter: A -> 1, B -> 2, ..., Z -> 26
AlphabeticIndex(c) == UpperChar(c) - 64

\* the resolution order C5 states, for a key that is a str or None
ClaimedColIndex(H, key, d) ==
    LET k == key.s
        Exact(h) == h # NoneStr /\ h = k
        NoCase(h) == h # NoneStr /\ Lower(h) = Lower(k)
    IN  IF key.t = "none" \/ Len(k) = 0 THEN d
        ELSE IF \E i \in DOMAIN H : Exact(H[i]) THEN FirstIndexWhere(H, Exact)
        ELSE IF \E i \in DOMAIN H : NoCase(H[i]) THEN FirstIndexWhere(H, NoCase)
        ELSE IF IsDigit(k) THEN IntOf(k)
        ELSE IF Len(k) = 1 /\ IsLetter(k[1]) THEN AlphabeticIndex(k[1])
        ELSE d

\* C5 as stated: for a str or None key the result is, in this order, the index
\* of the first header equal to the key, of the first header equal to it
\* ignoring case, the integer value of an all-digits key, the alphabetic
\* index of a single-letter key, else the default
C5_ResolutionOrder ==
    (IsColCall /\ call.header.t # "int") =>
        ret = Returned(ClaimedColIndex(call.header_items, call.header, call.default))

\* C6 as stated: a single-letter key that matches no header, exactly or
\* ignoring case, resolves to its alphabetic index (A -> 1, ..., Y -> 25) when
\* that index is strictly between 0 and 26, and to the default otherwise
C6_SingleLetterBetween0And26 ==
    (/\ IsColCall
     /\ call.header.t = "str"
     /\ Len(call.header.s) = 1
     /\ IsLetter(call.header.s[1])
     /\ ~Contains(LowerHeaders(call.header_items), Lower(call.header.s))) =>
        LET index == AlphabeticIndex(call.header.s[1])
        IN  ret = Returned(IF 0 < index /\ index < 26 THEN index ELSE call.default)

(***************************************************************************)
(* SpecFetch: the loop of QuipThread._get_thread_html, one fetch a step.   *)
(* The service answers each fetch with a fragment and a next cursor as it  *)
(* likes, or fails it.                                                     *)
(***************************************************************************)
\* a thread has at most MaxFetches pages
MaxFetches == 3

\* the fragments of the pages: "", <p id="p">a</p> and <p id="q">b</p>
PageFragments == {<<>>, <<P(<<112>>, <<97>>)>>, <<P(<<113>>, <<98>>)>>}

\* the cursors of the responses that name a next page: "c1", "c2", and None
\* for a response without next_cursor
NextCursors == {<<99, 49>>, <<99, 50>>, NoneStr}

\* _url: the cursor argument is in the query when _clean keeps it
SentCursor(next_cursor) == IF StrTruthy(next_cursor) THEN next_cursor ELSE NoneStr

InitFetch ==
    /\ \E body \in DocBodies : Loaded("document", body)
    /\ pc = "idle"
    /\ call = NoCall
    /\ edits = <<>>
    /\ last = NoLast
    /\ ret = NotCalled

\* html_content = ''; next_cursor = None
get_thread_html ==
    /\ pc = "idle"
    /\ pc' = "fetching"
    /\ call' = [op |-> "_get_thread_html", html_content |-> <<>>, next_cursor |-> NoneStr,
                cursors |-> <<>>, fragments |-> <<>>, returned |-> <<>>]
    /\ UNCHANGED <<kind, cache, edits, last, ret>>

\* one turn of the loop: the fetch with the cursor of the last response, the
\* fragment appended, the next cursor taken; the loop ends on the cursor ''
get_thread_html_fetch ==
    /\ pc = "fetching"
    /\ \/ \E fragment \in PageFragments,
             cursor \in (IF Len(call.cursors) + 1 < MaxFetches THEN NextCursors ELSE {})
                            \cup {EmptyStr} :
             /\ call' = [call EXCEPT !.html_content = @ \o fragment,
                                     !.next_cursor = cursor,
                                     !.cursors = Append(@, SentCursor(call.next_cursor)),
                                     !.fragments = Append(@, fragment),
                                     !.returned = Append(@, cursor)]
             /\ pc' = IF cursor = EmptyStr THEN "returned" ELSE "fetching"
             /\ ret' = IF cursor = EmptyStr
                       THEN Returned(GetThreadHtml(<<call'.html_content>>))
                       ELSE ret
       \/ \E failure \in Failures :
             /\ call' = [call EXCEPT !.cursors = Append(@, SentCursor(call.next_cursor))]
             /\ pc' = "returned"
             /\ ret' = Raised(failure)
    /\ UNCHANGED <<kind, cache, edits, last>>

NextFetch ==
    \/ get_thread_html
    \/ get_thread_html_fetch

SpecFetch == InitFetch /\ [][NextFetch]_vars

FetchCall == call.op = "_get_thread_html"

\* the elements of the fragments received, in the order of the fetches
RECURSIVE FragmentsUpTo(_)
FragmentsUpTo(n) ==
    IF n = 0 THEN <<>> ELSE FragmentsUpTo(n - 1) \o call.fragments[n]

\* C13: _get_thread_html makes its first fetch without a cursor and each
\* later fetch with the cursor the response before returned, goes on until a
\* response returns the cursor "" and stops there; its result is "<html>" +
\* the fragments in fetch order + "</html>" when they are not all empty, and
\* None otherwise.
C13_FetchLoop ==
    FetchCall
        => /\ \A i \in DOMAIN call.cursors :
                 call.cursors[i] = IF i = 1 THEN NoneStr ELSE call.returned[i - 1]
           /\ \A i \in DOMAIN call.returned :
                 call.returned[i] = EmptyStr => (i = Len(call.returned) /\ pc = "returned")
           /\ (pc = "returned" /\ ret.exc = "")
                 => /\ Len(call.returned) > 0
                    /\ call.returned[Len(call.returned)] = EmptyStr
                    /\ ret.val = IF Len(FragmentsUpTo(Len(call.fragments))) > 0
                                 THEN [isNone |-> FALSE, wrapped |-> TRUE,
                                       body |-> FragmentsUpTo(Len(call.fragments))]
                                 ELSE NoneHtml
           /\ pc = "fetching"
                 => (Len(call.returned) > 0 => call.returned[Len(call.returned)] # EmptyStr)

\* the fragments <p id="p">a</p> and <p id="q">b</p>, the second fetched
\* with the cursor "c1", give <html><p id="p">a</p><p id="q">b</p></html>
C13_Witness ==
    /\ FetchCall
    /\ pc = "returned"
    /\ call.fragments = <<<<P(<<112>>, <<97>>)>>, <<P(<<113>>, <<98>>)>>>>
    /\ call.cursors = <<NoneStr, <<99, 49>>>>
    /\ ret = Returned([isNone |-> FALSE, wrapped |-> TRUE,
                       body |-> <<P(<<112>>, <<97>>), P(<<113>>, <<98>>)>>])

\* every fragment was empty and the result is None
FetchedNothing ==
    /\ FetchCall
    /\ pc = "returned"
    /\ Len(call.fragments) = 2
    /\ ret = Returned(NoneHtml)

(***************************************************************************)
(* SpecRequest: one call of edit_thread, that is of _fetch_json under its  *)
(* retry decorator, one request attempt a step.  The service answers each  *)
(* attempt as it likes.                                                    *)
(***************************************************************************)
\* the content of the call: "x", "a b" after a zero-width space, "" and None
RequestContents == {Text(<<120>>), Text(<<8203, 97, 32, 98>>), Text(EmptyStr), NoContent}

\* its location: None, AFTER_DOC and REPLACE_SECTION
RequestLocations == {NoneIdx, AFTER_DOC, REPLACE_SECTION}

\* its section_id: "a", "r;1", "" and None
RequestSections == {<<97>>, <<114, 59, 49>>, EmptyStr, NoneStr}

InitRequest ==
    /\ Loaded("document", DocNoList)
    /\ pc = "idle"
    /\ call = NoCall
    /\ edits = <<>>
    /\ last = NoLast
    /\ ret = NotCalled

\* edit_thread up to the first attempt of _fetch_json
edit_thread ==
    /\ pc = "idle"
    /\ \E content \in RequestContents, location \in RequestLocations,
          section_id \in RequestSections :
          /\ call' = [op |-> "edit_thread",
                      post_data |-> EditThreadArgs(EditThreadRequest(content, location,
                                                                     Markdown, section_id)),
                      tries |-> Tries, delay |-> Delay,
                      attempts |-> <<>>, sleeps |-> <<>>, sent |-> <<>>]
          /\ edits' = <<EditThreadRequest(content, location, Markdown, section_id)>>
    /\ pc' = "trying"
    /\ UNCHANGED <<kind, cache, last, ret>>

\* one attempt: the request is built and sent; a failure the decorator
\* catches is retried after a sleep while tries are left
fetch_json_attempt ==
    /\ pc = "trying"
    /\ \E outcome \in {"ok"} \cup Failures :
          LET again == RetriesOn(outcome) /\ call.tries > 1
          IN  /\ call' = [call EXCEPT !.attempts = Append(@, outcome),
                                      !.sent = Append(@, PostFields(call.post_data)),
                                      !.tries = IF RetriesOn(outcome) THEN @ - 1 ELSE @,
                                      !.sleeps = IF again THEN Append(@, call.delay) ELSE @,
                                      !.delay = IF again THEN @ * Backoff ELSE @]
              /\ pc' = IF again THEN "trying" ELSE "returned"
              /\ ret' = IF again THEN ret
                        ELSE IF outcome = "ok" THEN Returned(StatusOk) ELSE Raised(outcome)
    /\ UNCHANGED <<kind, cache, edits, last>>

NextRequest ==
    \/ edit_thread
    \/ fetch_json_attempt

SpecRequest == InitRequest /\ [][NextRequest]_vars

RequestCall == call.op = "edit_thread"

\* C15: every _fetch_json call makes at most 3 request attempts; an attempt
\* after the first is made only after the attempt before it timed out, and
\* after a sleep of 1 second before the second and 2 before the third; the
\* third timeout in a row is raised to the caller; any other failure
\* (QuipError, HTTP error) ends the call on its attempt, with no further one.
C15_BoundedRetry ==
    RequestCall
        => /\ Len(call.attempts) <= 3
           /\ \A i \in DOMAIN call.attempts :
                 i > 1 => (call.attempts[i - 1] = "TimeoutError" /\ call.sleeps[i - 1] = i - 1)
           /\ Len(call.sleeps) <= 2
           /\ pc = "trying"
                 => /\ Len(call.attempts) < 3
                    /\ Len(call.sleeps) = Len(call.attempts)
                    /\ \A i \in DOMAIN call.attempts : call.attempts[i] = "TimeoutError"
           /\ pc = "returned"
                 => /\ Len(call.attempts) >= 1
                    /\ Len(call.sleeps) = Len(call.attempts) - 1
                    /\ ret = IF call.attempts[Len(call.attempts)] = "ok"
                             THEN Returned(StatusOk)
                             ELSE Raised(call.attempts[Len(call.attempts)])
                    /\ call.attempts[Len(call.attempts)] = "TimeoutError"
                           => Len(call.attempts) = 3

\* the third timeout in a row was raised, after sleeps of 1 and 2 seconds
C15_Witness ==
    /\ RequestCall
    /\ pc = "returned"
    /\ call.attempts = <<"TimeoutError", "TimeoutError", "TimeoutError">>
    /\ call.sleeps = <<1, 2>>
    /\ ret = Raised("TimeoutError")

\* a QuipError on the second attempt ended the call there
RetryEndsOnOtherFailure ==
    /\ RequestCall
    /\ pc = "returned"
    /\ call.attempts = <<"TimeoutError", "QuipError">>
    /\ ret = Raised("QuipError")

\* the bytes a form-encoded value stands for
HexValue(c) == IF c <= 57 THEN c - 48 ELSE c - 55
RECURSIVE Unquote(_)
Unquote(q) ==
    IF Len(q) = 0 THEN <<>>
    ELSE IF Head(q) = 37 THEN <<16 * HexValue(q[2]) + HexValue(q[3])>> \o Unquote(SubSeq(q, 4, Len(q)))
    ELSE IF Head(q) = 43 THEN <<32>> \o Unquote(Tail(q))
    ELSE <<Head(q)>> \o Unquote(Tail(q))

\* the text UTF-8 bytes stand for
RECURSIVE DecodeUtf8(_)
DecodeUtf8(b) ==
    IF Len(b) = 0 THEN <<>>
    ELSE IF Head(b) < 128 THEN <<Head(b)>> \o DecodeUtf8(Tail(b))
    ELSE IF Head(b) < 224
         THEN <<(Head(b) - 192) * 64 + (b[2] - 128)>> \o DecodeUtf8(SubSeq(b, 3, Len(b)))
    ELSE <<(Head(b) - 224) * 4096 + (b[2] - 128) * 64 + (b[3] - 128)>>
             \o DecodeUtf8(SubSeq(b, 4, Len(b)))

\* the fields of that name among the fields sent
FieldsNamed(fields, name) == SelectSeq(fields, LAMBDA f : f[1] = name)

\* C16: in every request a field is transmitted if and only if its value is
\* truthy or is an integer, so that 0 is kept: a string goes as its UTF-8
\* bytes, an integer as its decimal text, and a field that is None or "" is
\* left out.  The placement code 0 goes as location=0, and an absent anchor
\* gives no section_id field.
C16_FieldsTransmitted ==
    RequestCall
        => \A a \in DOMAIN call.sent : \A i \in DOMAIN call.post_data :
               LET name == call.post_data[i][1]
                   v == call.post_data[i][2]
                   sent == FieldsNamed(call.sent[a], name)
               IN  /\ Len(sent) = IF v.t = "int" \/ (v.t = "str" /\ Len(v.s) > 0) THEN 1 ELSE 0
                   /\ (Len(sent) = 1 /\ v.t = "str")
                          => DecodeUtf8(Unquote(sent[1][2])) = v.s
                   /\ (Len(sent) = 1 /\ v.t = "int")
                          => (IsDigit(sent[1][2]) /\ IntOf(sent[1][2]) = v.n)
                   /\ (name = "location" /\ edits[1].location = 0)
                          => sent = <<<<"location", <<48>>>>>>
                   /\ (name = "section_id" /\ ~StrTruthy(edits[1].anchor))
                          => sent = <<>>

\* edit_thread(zero-width space + "a b", location=0, section_id=None) sent
\* thread_id=T, content=%E2%80%8Ba+b, location=0 and format=markdown
C16_Witness ==
    /\ RequestCall
    /\ pc = "returned"
    /\ edits[1].location = 0
    /\ edits[1].anchor = NoneStr
    /\ call.sent[1] = <<<<"thread_id", <<84>>>>,
                        <<"content", <<37, 69, 50, 37, 56, 48, 37, 56, 66, 97, 43, 98>>>>,
                        <<"location", <<48>>>>,
                        <<"format", Markdown>>>>

(***************************************************************************)
(* Spreadsheets the service may hold                                       *)
(***************************************************************************)
\* the zero-width space Quip puts in an empty cell
Zwsp == <<8203>>
Acme == <<65, 99, 109, 101>>
S1 == <<83, 49>>
S2 == <<83, 50>>

\* One sheet "S1" as Quip renders it: a header row of <th> cells, the first
\* without text, then rows of <td> cells whose first cell is the row number.
\* The cell ids hold a ';'; the last cell of row "q" has no id.
\*      |      | Date | Amount |
\*      | 1    | Acme | 5      |
\*      | 2    | Bolt | 6      |
SheetLedger ==
    <<Table(<<84>>, S1,
        <<Tr(<<104>>, <<Th(NoneStr, NoneStr), Th(NoneStr, Date), Th(NoneStr, Amount)>>),
          Tr(<<114>>, <<Td(<<114, 59, 48>>, <<49>>), Td(<<114, 59, 49>>, Acme),
                        Td(<<114, 59, 50>>, <<53>>)>>),
          Tr(<<113>>, <<Td(<<113, 59, 48>>, <<50>>), Td(<<113, 59, 49>>, <<66, 111, 108, 116>>),
                        Td(NoneStr, <<54>>)>>)>>)>>

\* Two sheets whose header rows are <td> cells and differ in column order;
\* the second sheet has a row shorter than its header row.
\*   S1:  | zwsp | Date | Amount |      S2:  | zwsp | Amount | Date |
\*        | 1    | acme | 5      |           | 1    | 7      |
SheetPair ==
    <<Table(<<84>>, S1,
        <<Tr(<<104>>, <<Td(<<104, 59, 48>>, Zwsp), Td(<<104, 59, 49>>, Date),
                        Td(<<104, 59, 50>>, Amount)>>),
          Tr(<<114>>, <<Td(<<114, 59, 48>>, <<49>>), Td(<<114, 59, 49>>, <<97, 99, 109, 101>>),
                        Td(<<114, 59, 50>>, <<53>>)>>)>>),
      Table(<<85>>, S2,
        <<Tr(<<105>>, <<Td(<<105, 59, 48>>, Zwsp), Td(<<105, 59, 49>>, Amount),
                        Td(<<105, 59, 50>>, Date)>>),
          Tr(<<115>>, <<Td(<<115, 59, 48>>, <<49>>), Td(<<115, 59, 49>>, <<55>>)>>)>>)>>

\* A sheet "S1" with a header row only, of a single cell
SheetBare ==
    <<Table(<<84>>, S1, <<Tr(<<104>>, <<Td(<<104, 59, 48>>, Zwsp)>>)>>)>>

SheetBodies == {SheetLedger, SheetPair, SheetBare}

\* the sheet names a caller may pass: "S1", "S2", "S9" (no sheet), None
SheetNameArgs == {S1, S2, <<83, 57>>, NoneStr}

(***************************************************************************)
(* SpecRow: _dict_to_html on the spreadsheets above                        *)
(***************************************************************************)
\* the values of a mapping: "5/1/2014", "2.24" and ""
RowValues == {<<53, 47, 49, 47, 50, 48, 49, 52>>, <<50, 46, 50, 52>>, EmptyStr}

\* the keys of a mapping: "Date", "date", "Amount", "B", "3", "0", "Total", ""
RowKeys == {StrKey(s) : s \in {Date, <<100, 97, 116, 101>>, Amount, <<66>>, <<51>>, <<48>>,
                              <<84, 111, 116, 97, 108>>, EmptyStr}}

\* a mapping holds at most MaxUpdates entries
MaxUpdates == 2

RECURSIVE DictsOfLen(_, _, _)
DictsOfLen(n, keys, values) ==
    IF n = 0 THEN {<<>>}
    ELSE {Append(d, <<k, v>>) : d \in DictsOfLen(n - 1, keys, values), k \in keys, v \in values}

DistinctKeys(d) == \A i, j \in DOMAIN d : i # j => d[i][1] # d[j][1]

Dicts(keys, values) ==
    {d \in UNION {DictsOfLen(n, keys, values) : n \in 0..MaxUpdates} : DistinctKeys(d)}

InitRow ==
    /\ \E body \in SheetBodies : Loaded("spreadsheet", body)
    /\ pc = "idle"
    /\ call = NoCall
    /\ edits = <<>>
    /\ last = NoLast
    /\ ret = NotCalled

dict_to_html ==
    /\ pc = "idle"
    /\ \E updates_dct \in Dicts(RowKeys, RowValues), sheet_name \in SheetNameArgs :
          /\ pc' = "returned"
          /\ call' = [op |-> "_dict_to_html", updates_dct |-> updates_dct,
                      sheet_name |-> sheet_name]
          /\ ret' = DictToHtml(content_tree, updates_dct, sheet_name)
          /\ UNCHANGED <<kind, cache, edits, last>>

NextRow == dict_to_html

SpecRow == InitRow /\ [][NextRow]_vars

\* _dict_to_html was called and built a row
RowBuilt == call.op = "_dict_to_html" /\ ret.exc = ""

Count(l, x) == Cardinality({i \in DOMAIN l : l[i] = x})

\* C7: the row built has at least as many cells as the mapping has values, and
\* every value is in exactly one cell: a value other than "" is in as many
\* cells as entries supply it, and "" (which also fills the gaps) in no fewer
C7_NoValueDropped ==
    RowBuilt =>
        LET cells == ret.val.cells
            values == DictValues(call.updates_dct)
        IN  /\ Len(cells) >= Len(values)
            /\ \A v \in RowValues \ {EmptyStr} : Count(cells, v) = Count(values, v)
            /\ Count(cells, EmptyStr) >= Count(values, EmptyStr)
            /\ \A i \in DOMAIN cells : cells[i] \in RowValues

\* a row was built from two entries whose keys resolve to the same column and
\* from an entry whose key does not resolve
C7_Witness ==
    /\ RowBuilt
    /\ Len(call.updates_dct) = 2
    /\ LET headers == DictHeaders(content_tree, call.sheet_name)
           index(i) == GetColNameIndex(headers, call.updates_dct[i][1], NoneIdx)
       IN  (index(1) = index(2) \/ index(2) = NoneIdx) /\ index(1) # NoneIdx
    /\ call.updates_dct[1][2] # call.updates_dct[2][2]
    /\ EmptyStr \notin {call.updates_dct[1][2], call.updates_dct[2][2]}
    /\ Len(ret.val.cells) >= 2

\* The reference reconciliation of C8, as a condition on the cells of a row.
\* idxs[i] is the column index the key of entry i resolves to (NoneIdx when it
\* does not resolve), values[i] its value, and Res(idxs, i) tells whether
\* entry i counts as resolved.  Each resolved value is at its index; walking
\* the indices 0..max resolved index, each index without a resolved value
\* takes the next unresolved value in supplied order, or "" when none is left;
\* the unresolved values still unplaced follow in supplied order.
Reconciled(cells, idxs, values, Res(_, _)) ==
    LET R == {i \in DOMAIN idxs : Res(idxs, i)}
        U == SelectSeq([i \in DOMAIN idxs |-> i], LAMBDA i : i \notin R)
        max == CHOOSE m \in {idxs[i] : i \in R} : \A i \in R : idxs[i] <= m
        Gaps == {g \in 0..max : \A i \in R : idxs[i] # g}
        rank(g) == Cardinality({h \in Gaps : h < g})
        left == IF Len(U) > Cardinality(Gaps) THEN Len(U) - Cardinality(Gaps) ELSE 0
    IN  IF R = {} THEN cells = [t \in DOMAIN U |-> values[U[t]]]
        ELSE /\ Len(cells) = max + 1 + left
             /\ \A i \in R : cells[idxs[i] + 1] = values[i]
             /\ \A g \in Gaps :
                    cells[g + 1] = IF rank(g) < Len(U) THEN values[U[rank(g) + 1]]
                                   ELSE EmptyStr
             /\ \A t \in 1..left : cells[max + 1 + t] = values[U[Cardinality(Gaps) + t]]

\* an entry is resolved when its key resolves to a column index
ResolvesToColumn(idxs, i) == idxs[i] # NoneIdx

\* an entry is resolved when its key resolves to a column index that no
\* earlier entry resolves to
ResolvesToFreeColumn(idxs, i) ==
    idxs[i] # NoneIdx /\ \A j \in 1..(i - 1) : idxs[j] # idxs[i]

RowIndices ==
    [i \in DOMAIN call.updates_dct |->
        GetColNameIndex(DictHeaders(content_tree, call.sheet_name),
                        call.updates_dct[i][1], NoneIdx)]

SheetGaps ==
    <<Table(<<84>>, NoneStr,
        <<Tr(<<104>>, <<Td(<<104, 59, 48>>, Zwsp), Td(<<104, 59, 49>>, Date),
                        Td(<<104, 59, 50>>, Amount)>>),
          Tr(<<114>>, <<Td(<<114, 59, 48>>, <<49>>), Td(<<114, 59, 49>>, NoneStr),
                        Td(<<114, 59, 50>>, <<53>>)>>),
          Tr(<<113>>, <<Td(<<113, 59, 48>>, <<50>>), Td(<<113, 59, 49>>, Acme),
                        Td(<<113, 59, 50>>, <<54>>)>>)>>)>>

\* the headers searched: "Date", "Amount", "Total" (no column), 2 and None
FindHeaders == {StrKey(Date), StrKey(Amount), StrKey(<<84, 111, 116, 97, 108>>), IntKey(2),
                NoneKey}

\* the values searched: "ACME", "bolt", "7" and "1"
FindValues == {<<65, 67, 77, 69>>, <<98, 111, 108, 116>>, <<55>>, <<49>>}

InitFind ==
    /\ \E body \in SheetBodies \cup {SheetGaps} : Loaded("spreadsheet", body)
    /\ pc = "idle"
    /\ call = NoCall
    /\ edits = <<>>
    /\ last = NoLast
    /\ ret = NotCalled

\* _find_row_tree(_sheet_name_to_tree(sheet_name), header, value)
find_row_tree ==
    /\ pc = "idle"
    /\ \E sheet_name \in SheetNameArgs, header \in FindHeaders, value \in FindValues :
          LET Find(sheet_tree, raises) ==
                  IF raises # "" THEN FindRaised(raises)
                  ELSE FindRowTree(sheet_tree, header, value)
              Result(row_tree) ==
                  IF row_tree.exc # "" THEN Raised(row_tree.exc) ELSE Returned(row_tree.row)
              Named(sheet_tree) == Result(Find(sheet_tree, ColNamesRaise(content_tree, sheet_tree)))
          IN  /\ pc' = "returned"
              /\ call' = [op |-> "_find_row_tree", sheet_name |-> sheet_name,
                          header |-> header, value |-> value]
              /\ ret' = Named(SheetNameToTree(content_tree, sheet_name))
              /\ UNCHANGED <<kind, cache, edits, last>>

NextFind == find_row_tree

SpecFind == InitFind /\ [][NextFind]_vars

\* the call was made on a sheet that has a first row
FindCall ==
    /\ call.op = "_find_row_tree"
    /\ pc = "returned"
    /\ ColNamesRaise(content_tree, SheetNameToTree(content_tree, call.sheet_name)) = ""

FoundSheet == SheetNameToTree(content_tree, call.sheet_name)
FoundIndex == GetColNameIndex(GetSheetTreeColNames(FoundSheet), call.header, 0)

\* the row has a <td> cell at the index whose first text is the value,
\* ignoring case
FindMatches(row) ==
    /\ Len(row.kids) > FoundIndex
    /\ row.kids[FoundIndex + 1].tag = "td"
    /\ FirstText(row.kids[FoundIndex + 1]) # NoneStr
    /\ Lower(FirstText(row.kids[FoundIndex + 1])) = Lower(call.value)

\* the first row that matches, NoNode when none does
FirstMatch ==
    LET rows == IterFind(FoundSheet, "tr")
    IN  IF \E i \in DOMAIN rows : FindMatches(rows[i])
        THEN rows[CHOOSE i \in DOMAIN rows :
                      FindMatches(rows[i]) /\ \A j \in 1..(i - 1) : ~FindMatches(rows[j])]
        ELSE NoNode

\* C19: _find_row_tree(sheet, header, value) returns the first row, in
\* document order, whose cell at the column index resolved from the header
\* has a first text equal to the value ignoring case, and None when no row
\* matches, on every sheet: with rows shorter than the index, with cells
\* without text, with headers that do not resolve.
C19_FindsFirstMatchingRow == FindCall => ret = Returned(FirstMatch)

\* the rows before the first match, all of them when there is none, have a
\* text in their <td> cell at the index
TextUpToMatch ==
    LET rows == IterFind(FoundSheet, "tr")
    IN  \A i \in DOMAIN rows :
            (/\ \A j \in 1..(i - 1) : ~FindMatches(rows[j])
             /\ Len(rows[i].kids) > FoundIndex
             /\ rows[i].kids[FoundIndex + 1].tag = "td")
                => FirstText(rows[i].kids[FoundIndex + 1]) # NoneStr

\* the same on the sheets where the cells the scan reads have a text
FindsFirstMatchingRowOfTextCells ==
    (FindCall /\ TextUpToMatch) => ret = Returned(FirstMatch)

(***************************************************************************)
(* SpecColor: parse_sheet_contents on a sheet with one styled cell         *)
(***************************************************************************)
\* a style holds at most MaxDeclarations declarations
MaxDeclarations == 2

\* "color:#F00000;", "background-color:#00FF00;", "background-color:#0F0",
\* "width:5px;" and "background-color:red;"
Declarations ==
    {<<99, 111, 108, 111, 114, 58, 35, 70, 48, 48, 48, 48, 48, 59>>,
     <<98, 97, 99, 107, 103, 114, 111, 117, 110, 100, 45, 99, 111, 108, 111, 114, 58, 35, 48, 48, 70, 70, 48, 48, 59>>,
     <<98, 97, 99, 107, 103, 114, 111, 117, 110, 100, 45, 99, 111, 108, 111, 114, 58, 35, 48, 70, 48>>,
     <<119, 105, 100, 116, 104, 58, 53, 112, 120, 59>>,
     <<98, 97, 99, 107, 103, 114, 111, 117, 110, 100, 45, 99, 111, 108, 111, 114, 58, 114, 101, 100, 59>>}

RECURSIVE StylesOfLen(_)
StylesOfLen(n) ==
    IF n = 0 THEN {<<>>}
    ELSE {style \o d : style \in StylesOfLen(n - 1), d \in Declarations}

\* the style attribute of the cell: the declarations in a row, or no
\* attribute
Styles == UNION {StylesOfLen(n) : n \in 0..MaxDeclarations} \cup {NoneStr}

\* the sheet "S1" with the header row ["", "Date"] and the row "r" whose cell
\* "r;1" has the style
SheetStyled(style) ==
    <<Table(<<84>>, S1,
        <<Tr(<<104>>, <<Td(<<104, 59, 48>>, Zwsp), Td(<<104, 59, 49>>, Date)>>),
          Tr(<<114>>, <<Td(<<114, 59, 48>>, <<49>>),
                        Styled(Td(<<114, 59, 49>>, Acme), style)>>)>>)>>

InitColor ==
    /\ \E style \in Styles : Loaded("spreadsheet", SheetStyled(style))
    /\ pc = "idle"
    /\ call = NoCall
    /\ edits = <<>>
    /\ last = NoLast
    /\ ret = NotCalled

parse_sheet_contents ==
    /\ pc = "idle"
    /\ \E sheet_name \in SheetNameArgs :
          /\ pc' = "returned"
          /\ call' = [op |-> "parse_sheet_contents", sheet_name |-> sheet_name]
          /\ ret' = ParseSheetContents(content_tree, sheet_name)
          /\ UNCHANGED <<kind, cache, edits, last>>

NextColor == parse_sheet_contents

SpecColor == InitColor /\ [][NextColor]_vars

\* the export returned the sheet; its styled cell, and the style it has in
\* the tree
Exported == call.op = "parse_sheet_contents" /\ pc = "returned" /\ ret.exc = ""
ExportedCell == DictGet(ret.val.rows[2].cells, Date)
CellStyle == IterFind(content_tree.root, "tr")[2].kids[2].style

\* the places of the style where a background-color declaration with a '#'
\* starts
MarkerPlaces ==
    {i \in 1..(Len(CellStyle) - Len(ColorMarker) + 1) :
        SubSeq(CellStyle, i, i + Len(ColorMarker) - 1) = ColorMarker}

\* C18: in the sheet export a cell carries a color if and only if its style
\* holds the marker "background-color:#", and the color is then the 6
\* characters that follow the '#' of that background-color declaration; a
\* cell without style, or whose style lacks the marker, has no color.
C18_ColorOfBackgroundDeclaration ==
    Exported
        => IF CellStyle # NoneStr /\ MarkerPlaces # {}
           THEN /\ ExportedCell.color # NoneStr
                /\ Len(ExportedCell.color) = 6
                /\ \E i \in MarkerPlaces :
                       ExportedCell.color
                           = Slice(CellStyle, i + Len(ColorMarker) - 1, i + Len(ColorMarker) + 5)
           ELSE ExportedCell.color = NoneStr

\* the color is what follows the first '#' of the style, 6 characters of it
\* at most, when the style holds the marker, and is absent otherwise
ColorFollowsFirstSharp ==
    Exported
        => IF CellStyle # NoneStr /\ MarkerPlaces # {}
           THEN \E i \in 1..Len(CellStyle) :
                    /\ CellStyle[i] = 35
                    /\ \A j \in 1..(i - 1) : CellStyle[j] # 35
                    /\ ExportedCell.color = Slice(CellStyle, i, i + 6)
           ELSE ExportedCell.color = NoneStr

(***************************************************************************)
(* Spec: a QuipDocument or a QuipSpreadSheet and the calls of its public   *)
(* edit operations.  A call runs to its return or its exception in one     *)
(* step, but for sheet_search_update_cells, whose loop takes one step per  *)
(* cell edit.  The service answers each request as it likes.               *)
(***************************************************************************)
Bodies(k) == IF k = "document" THEN DocBodies ELSE SheetBodies

Init ==
    /\ \E k \in {"document", "spreadsheet"} : \E body \in Bodies(k) : Loaded(k, body)
    /\ pc = "idle"
    /\ call = NoCall
    /\ edits = <<>>
    /\ last = NoLast
    /\ ret = NotCalled

\* the html an edit response may carry, besides none
ResponseHtmls(k) ==
    IF k = "document" THEN {Fragment(b) : b \in DocBodies}
    ELSE {Fragment(b) : b \in {SheetLedger, SheetBare, DocNoList}}

\* the pages a re-fetch may return
Pages(k) ==
    IF k = "document" THEN {<<DocFlat>>, <<DocFlat, DocNoList>>, <<<<>>>>}
    ELSE {<<SheetPair>>, <<<<>>>>}

\* what the service may do with an edit made through doc_edit_content or
\* sheet_edit_content
Exchanges(k) ==
    {Failed(f) : f \in Failures}
        \cup {Answered(h) : h \in ResponseHtmls(k)}
        \cup {Refetched(NoneHtml, f, <<>>) : f \in Failures}
        \cup {Refetched(h, "ok", p) : h \in {NoneHtml, Fragment(<<>>)}, p \in Pages(k)}

\* what the service may do with an edit made through edit_range
RangeExchanges(k) ==
    {Failed(f) : f \in Failures} \cup {Answered(h) : h \in ResponseHtmls(k) \cup {NoneHtml}}

LastOf(request, x) ==
    [op |-> request.op, outcome |-> x.outcome, html |-> x.html, refetch |-> x.refetch,
     refetched |-> IF x.refetch = "ok" THEN GetThreadHtml(x.pages) ELSE NoneHtml]

Apply(via, c, x) ==
    CASE via = "doc_edit_content" -> DocEditContent(c, x)
      [] via = "sheet_edit_content" -> SheetEditContent(c, x)
      [] via = "edit_range" -> RangeEditContent(c, x)

Resulted(o) == IF o.exc = "" THEN Returned(StatusOk) ELSE Raised(o.exc)

\* the call ends with result r before it made a request
Ends(c, r) ==
    /\ pc' = "returned"
    /\ call' = c
    /\ ret' = r
    /\ UNCHANGED <<kind, cache, edits, last>>

\* the call makes the request through doc_edit_content, sheet_edit_content
\* or edit_range and ends with its result
Posts(c, request, via) ==
    \E x \in (IF via = "edit_range" THEN RangeExchanges(kind) ELSE Exchanges(kind)) :
        \E o \in {Apply(via, CurCache, x)} :
            /\ pc' = "returned"
            /\ call' = c
            /\ SetCache(o.cache)
            /\ edits' = Append(edits, request)
            /\ last' = LastOf(request, x)
            /\ ret' = Resulted(o)
            /\ UNCHANGED kind

\* the caller goes on to its next call
caller_continues ==
    /\ pc = "returned"
    /\ pc' = "idle"
    /\ call' = NoCall
    /\ edits' = <<>>
    /\ last' = NoLast
    /\ ret' = NotCalled
    /\ UNCHANGED <<kind, cache>>

(***************************************************************************)
(* QuipDocument: the public edit operations                                *)
(***************************************************************************)
ContentArgs == {Text(<<120>>), NoContent}
FormatArgs == {Markdown, Html}
\* "a", "r;1" and None
SectionArgs == {<<97>>, <<114, 59, 49>>, NoneStr}
\* "H", "H;1;2" and None
HeaderArgs == {<<72>>, <<72, 59, 49, 59, 50>>, NoneStr}
\* an index that may be None: <<>> is None
IdxArgs == {<<>>} \cup {<<i>> : i \in (-MaxIdx)..MaxIdx}

DocumentEdit(name, location) ==
    /\ pc = "idle"
    /\ \E content \in ContentArgs, format \in FormatArgs :
          LET c == [op |-> name, content |-> content, format |-> format]
          IN  IF content = NoContent THEN Ends(c, Raised("Exception"))
              ELSE Posts(c, EditThreadRequest(content, location, format, NoneStr),
                         "doc_edit_content")

content_add_after_document ==
    /\ kind = "document"
    /\ DocumentEdit("content_add_after_document", AFTER_DOC)
content_add_before_document ==
    /\ kind = "document"
    /\ DocumentEdit("content_add_before_document", BEFORE_DOC)

\* the section operations had they required the content alone
SectionEditChecksContentOnly(name, location) ==
    /\ pc = "idle"
    /\ \E content \in ContentArgs, format \in FormatArgs, section_id \in SectionArgs :
          LET c == [op |-> name, content |-> content, format |-> format,
                    section_id |-> section_id]
          IN  IF content = NoContent
              THEN Ends(c, Raised("Exception"))
              ELSE Posts(c, EditThreadRequest(content, location, format, section_id),
                         "doc_edit_content")

SectionEdit(name, location) ==
    /\ pc = "idle"
    /\ \E content \in ContentArgs, format \in FormatArgs, section_id \in SectionArgs :
          LET c == [op |-> name, content |-> content, format |-> format,
                    section_id |-> section_id]
          IN  IF content = NoContent \/ section_id = NoneStr
              THEN Ends(c, Raised("Exception"))
              ELSE Posts(c, EditThreadRequest(content, location, format, section_id),
                         "doc_edit_content")

content_add_after_section ==
    /\ kind = "document"
    /\ SectionEdit("content_add_after_section", AFTER_SECTION)
content_add_before_section ==
    /\ kind = "document"
    /\ SectionEdit("content_add_before_section", BEFORE_SECTION)
content_replace_section ==
    /\ kind = "document"
    /\ SectionEdit("content_replace_section", REPLACE_SECTION)

content_delete_section ==
    /\ kind = "document"
    /\ pc = "idle"
    /\ \E section_id \in SectionArgs :
          LET c == [op |-> "content_delete_section", section_id |-> section_id]
          IN  IF section_id = NoneStr THEN Ends(c, Raised("Exception"))
              ELSE Posts(c, EditThreadRequest(Text(<<32>>), DELETE_SECTION, Markdown,
                                              section_id),
                         "doc_edit_content")

RangeEdit(name, location) ==
    /\ pc = "idle"
    /\ \E content \in ContentArgs, format \in FormatArgs, header \in HeaderArgs :
          LET c == [op |-> name, content |-> content, format |-> format,
                    header |-> header]
          IN  IF content = NoContent \/ header = NoneStr
              THEN Ends(c, Raised("Exception"))
              ELSE Posts(c, EditRangeRequest(content, location, format, header),
                         "edit_range")

content_add_after_range ==
    /\ kind = "document"
    /\ RangeEdit("content_add_after_range", AFTER_RANGE)
content_add_before_range ==
    /\ kind = "document"
    /\ RangeEdit("content_add_before_range", BEFORE_RANGE)
content_replace_range ==
    /\ kind = "document"
    /\ RangeEdit("content_replace_range", REPLACE_RANGE)

content_delete_range ==
    /\ kind = "document"
    /\ pc = "idle"
    /\ \E header \in HeaderArgs :
          LET c == [op |-> "content_delete_range", header |-> header]
          IN  IF header = NoneStr THEN Ends(c, Raised("Exception"))
              ELSE Posts(c, EditRangeRequest(Text(<<32>>), DELETE_RANGE, Markdown, header),
                         "edit_range")

\* content_add_after_list and content_add_before_list: the anchor is the
\* last, or the first, item of the list
ListEdit(name, location) ==
    /\ pc = "idle"
    /\ \E content \in ContentArgs, format \in FormatArgs,
          list_section_id \in ListAnchors \cup {NoneStr} :
          LET c == [op |-> name, content |-> content, format |-> format,
                    list_section_id |-> list_section_id]
              section_id ==
                  IF location = AFTER_SECTION
                  THEN GetLastListItemSectionId(content_tree, list_section_id)
                  ELSE GetFirstListItemSectionId(content_tree, list_section_id)
          IN  IF content = NoContent \/ list_section_id = NoneStr
              THEN Ends(c, Raised("Exception"))
              ELSE IF section_id.exc # "" THEN Ends(c, section_id)
              ELSE Posts(c, EditThreadRequest(content, location, format, section_id.val),
                         "doc_edit_content")

content_add_after_list ==
    /\ kind = "document"
    /\ ListEdit("content_add_after_list", AFTER_SECTION)
content_add_before_list ==
    /\ kind = "document"
    /\ ListEdit("content_add_before_list", BEFORE_SECTION)

ListItemEdit(name, location) ==
    /\ pc = "idle"
    /\ \E content \in ContentArgs, format \in FormatArgs,
          list_section_id \in ListAnchors \cup {NoneStr}, item_idx \in IdxArgs :
          LET c == [op |-> name, content |-> content, format |-> format,
                    list_section_id |-> list_section_id, item_idx |-> item_idx]
              section_id ==
                  GetNthListItemSectionId(content_tree, list_section_id, item_idx[1])
          IN  IF content = NoContent \/ list_section_id = NoneStr \/ item_idx = <<>>
              THEN Ends(c, Raised("Exception"))
              ELSE IF section_id.exc # "" THEN Ends(c, section_id)
              ELSE Posts(c, EditThreadRequest(content, location, format, section_id.val),
                         "doc_edit_content")

content_insert_after_list_item ==
    /\ kind = "document"
    /\ ListItemEdit("content_insert_after_list_item", AFTER_SECTION)
content_replace_list_item ==
    /\ kind = "document"
    /\ ListItemEdit("content_replace_list_item", REPLACE_SECTION)

(***************************************************************************)
(* QuipSpreadSheet: the public edit operations                             *)
(***************************************************************************)
\* a row to add: a list, a dict, or a value that is neither
ListRow(row) == [t |-> "list", row |-> row, dct |-> <<>>]
DictRow(dct) == [t |-> "dict", row |-> <<>>, dct |-> dct]
OtherRow == [t |-> "other", row |-> <<>>, dct |-> <<>>]

NoRequest == EditThreadRequest(NoContent, -1, EmptyStr, NoneStr)
AddRaises(e) == [exc |-> e, edits |-> FALSE, request |-> NoRequest]
AddNothing == [exc |-> "", edits |-> FALSE, request |-> NoRequest]
AddRequest(request) == [exc |-> "", edits |-> TRUE, request |-> request]

\* _sheet_add_row up to its call of sheet_edit_content: the request it is
\* about to make, or how it ends without one.  row_idx and location are <<>>
\* when None.
SheetAddRow(tree, row_update, sheet_name, row_idx, location) ==
    LET idx == IF row_idx = <<>>
               THEN IF location = <<BEFORE_SECTION>> THEN 1 ELSE -1
               ELSE row_idx[1]
        loc == IF row_idx = <<>>
               THEN IF location = <<BEFORE_SECTION>> THEN BEFORE_SECTION ELSE AFTER_SECTION
               ELSE IF location = <<>> THEN AFTER_SECTION ELSE location[1]
        Edit(section_id, content) ==
            IF content.exc # "" THEN AddRaises(content.exc)
            ELSE AddRequest(EditThreadRequest(content.val, loc, Html, section_id.val))
        Content(section_id) ==
            IF section_id.exc # "" THEN AddRaises(section_id.exc)
            ELSE IF row_update.t = "other" THEN AddNothing
            ELSE Edit(section_id,
                      IF row_update.t = "list" THEN Returned(ListToHtml(row_update.row))
                      ELSE DictToHtml(tree, row_update.dct, NoneStr))
    IN  IF tree.status # "tree" THEN AddRaises("AttributeError")
        ELSE Content(GetNthRowSectionId(SheetNameToTree(tree, sheet_name), idx))

\* sheet_update_cells up to its call of sheet_edit_content: the cell id
\* content_sheet_json holds under [sheet_name]['rows'][row_idx - 1]['cells']
\* [col_name]['id'], and the request to replace that section
SheetUpdateCells(json, sheet_name, col_name_row_idx, update_val) ==
    LET Cell(cells, col_name) ==
            IF ~Contains(DictKeys(cells), col_name) THEN AddRaises("KeyError")
            ELSE AddRequest(EditThreadRequest(Text(update_val), REPLACE_SECTION, Markdown,
                                              DictGet(cells, col_name).id))
        Row(rows, col_name, row_idx) ==
            IF ~InRange(rows, row_idx - 1) THEN AddRaises("IndexError")
            ELSE Cell(PyAt(rows, row_idx - 1).cells, col_name)
        Sheet(parts) ==
            IF Len(parts) < 2 THEN AddRaises("IndexError")
            ELSE IF IntRaises(parts[2]) THEN AddRaises("ValueError")
            ELSE IF ~Contains(DictKeys(json), sheet_name) THEN AddRaises("KeyError")
            ELSE Row(DictGet(json, sheet_name).rows, parts[1], PyInt(parts[2]))
    IN  IF col_name_row_idx = NoneStr THEN AddRaises("TypeError")
        ELSE Sheet(Split(col_name_row_idx, 58))

\* the call ends as _sheet_add_row does
AddsRow(c, plan) ==
    IF plan.exc # "" THEN Ends(c, Raised(plan.exc))
    ELSE IF ~plan.edits THEN Ends(c, Returned(NoneStr))
    ELSE Posts(c, plan.request, "sheet_edit_content")

\* the rows callers add: ["5/1/2014", "2.24"], {"Amount": "2.24"}, and 7
RowUpdates ==
    {ListRow(<<<<53, 47, 49, 47, 50, 48, 49, 52>>, <<50, 46, 50, 52>>>>),
     DictRow(<<<<StrKey(Amount), <<50, 46, 50, 52>>>>>>),
     OtherRow}

\* *rows: one row, and none or two, which the call of _sheet_add_row rejects
RowsArgs ==
    {<<r>> : r \in RowUpdates} \cup {<<>>, <<OtherRow, OtherRow>>}

RowEdit(name, location) ==
    /\ pc = "idle"
    /\ \E rows \in RowsArgs, sheet_name \in SheetNameArgs :
          LET c == [op |-> name, rows |-> rows, sheet_name |-> sheet_name]
          IN  IF Len(rows) # 1 THEN Ends(c, Raised("TypeError"))
              ELSE AddsRow(c, SheetAddRow(content_tree, rows[1], sheet_name, <<>>,
                                          <<location>>))

sheet_row_prepend ==
    /\ kind = "spreadsheet"
    /\ RowEdit("sheet_row_prepend", BEFORE_SECTION)
sheet_row_append ==
    /\ kind = "spreadsheet"
    /\ RowEdit("sheet_row_append", AFTER_SECTION)

RowInsert(name, location) ==
    /\ pc = "idle"
    /\ \E rows \in RowsArgs, sheet_name \in SheetNameArgs, row_idx \in IdxArgs :
          LET c == [op |-> name, rows |-> rows, sheet_name |-> sheet_name,
                    row_idx |-> row_idx]
          IN  IF Len(rows) # 1 THEN Ends(c, Raised("TypeError"))
              ELSE AddsRow(c, SheetAddRow(content_tree, rows[1], sheet_name, row_idx,
                                          <<location>>))

sheet_row_insert_before ==
    /\ kind = "spreadsheet"
    /\ RowInsert("sheet_row_insert_before", BEFORE_SECTION)
sheet_row_insert_after ==
    /\ kind = "spreadsheet"
    /\ RowInsert("sheet_row_insert_after", AFTER_SECTION)

\* the searches callers make: {"Date": "ACME"}, {"Date": "bolt"},
\* {"Amount": "7"}, {"Amount": None} and {}
SearchDicts ==
    {<<<<StrKey(Date), <<65, 67, 77, 69>>>>>>,
     <<<<StrKey(Date), <<98, 111, 108, 116>>>>>>,
     <<<<StrKey(Amount), <<55>>>>>>,
     <<<<StrKey(Amount), NoneStr>>>>,
     <<>>}

\* the keys and the new values of their updates: "Amount", "Date", 0,
\* "Total"; "9" and ""
UpdateKeys ==
    {StrKey(Amount), StrKey(Date), IntKey(0), StrKey(<<84, 111, 116, 97, 108>>)}
UpdateValues == {<<57>>, EmptyStr}
UpdateDicts == Dicts(UpdateKeys, UpdateValues)

\* sheet_search_update_cells, the loop: the updates from the next one that
\* is not skipped on
RECURSIVE Pending(_, _, _)
Pending(headers, section_ids, updates) ==
    IF Len(updates) = 0 THEN <<>>
    ELSE IF SkipsUpdate(GetColNameIndex(headers, Head(updates)[1], 0), section_ids)
         THEN Pending(headers, section_ids, Tail(updates))
    ELSE updates

\* the call up to its first request.  A row found has a cell, so that
\* "if row_tree" holds.
SearchUpdateCells(search_dcts, updates_dcts) ==
    /\ pc = "idle"
    /\ \E sheet_name \in SheetNameArgs, search_dct \in search_dcts,
          updates_dct \in updates_dcts :
          LET c == [op |-> "sheet_search_update_cells", sheet_name |-> sheet_name,
                    search_dct |-> search_dct, updates_dct |-> updates_dct,
                    tree |-> content_tree, searched |-> FALSE, found |-> FALSE,
                    headers |-> <<>>, section_ids |-> <<>>, todo |-> <<>>]
              Loop(hit) ==
                  IF Len(hit.todo) = 0 THEN Ends(hit, Returned(NoneStr))
                  ELSE /\ pc' = "updating"
                       /\ call' = hit
                       /\ UNCHANGED <<kind, cache, edits, last, ret>>
              Update(headers, section_ids) ==
                  Loop([c EXCEPT !.searched = TRUE, !.found = TRUE, !.headers = headers,
                                 !.section_ids = section_ids,
                                 !.todo = Pending(headers, section_ids, updates_dct)])
              Insert(headers, header, value) ==
                  AddsRow([c EXCEPT !.searched = TRUE, !.headers = headers],
                          SheetAddRow(content_tree,
                                      DictRow(DictSet(updates_dct, header, value)),
                                      sheet_name, <<>>, <<>>))
              Search(headers, header, value, row_tree) ==
                  IF row_tree.exc # "" THEN Ends(c, Raised(row_tree.exc))
                  ELSE IF row_tree.found
                       THEN Update(headers, GetRowSectionIds(row_tree.row))
                  ELSE Insert(headers, header, value)
              Sheet(header, value, sheet_tree, raises) ==
                  IF raises # "" THEN Ends(c, Raised(raises))
                  ELSE Search(GetSheetTreeColNames(sheet_tree), header, value,
                              FindRowTree(sheet_tree, header, value))
              Named(header, value, sheet_tree) ==
                  Sheet(header, value, sheet_tree, ColNamesRaise(content_tree, sheet_tree))
          IN  IF Len(search_dct) = 0 THEN Ends(c, Raised("IndexError"))
              ELSE Named(search_dct[1][1], search_dct[1][2],
                         SheetNameToTree(content_tree, sheet_name))

sheet_search_update_cells ==
    /\ kind = "spreadsheet"
    /\ SearchUpdateCells(SearchDicts, UpdateDicts)

\* one turn of the loop that makes a request: the cell edit and the reload
sheet_search_update_cell ==
    /\ pc = "updating"
    /\ \E x \in Exchanges(kind) :
          \E o \in {SheetEditContent(CurCache, x)},
             index \in {GetColNameIndex(call.headers, Head(call.todo)[1], 0)},
             rest \in {Pending(call.headers, call.section_ids, Tail(call.todo))} :
              /\ SetCache(o.cache)
              /\ edits' = Append(edits, EditThreadRequest(Text(Head(call.todo)[2]),
                                                         REPLACE_SECTION, Markdown,
                                                         call.section_ids[index + 1]))
              /\ last' = LastOf(edits'[Len(edits')], x)
              /\ call' = [call EXCEPT !.todo = rest]
              /\ pc' = IF o.exc = "" /\ Len(rest) > 0 THEN "updating" ELSE "returned"
              /\ ret' = IF o.exc = "" /\ Len(rest) > 0 THEN NotCalled ELSE Resulted(o)
              /\ UNCHANGED kind

\* the addresses callers pass: "Date:1", "date:1", "B:1", "Amount:2",
\* "Date:0", "Date:3", "Date" and None
CellArgs ==
    {Date \o <<58, 49>>, <<100, 97, 116, 101, 58, 49>>, <<66, 58, 49>>, Amount \o <<58, 50>>,
     Date \o <<58, 48>>, Date \o <<58, 51>>, Date, NoneStr}

sheet_update_cells ==
    /\ kind = "spreadsheet"
    /\ pc = "idle"
    /\ \E sheet_name \in SheetNameArgs, col_name_row_idx \in CellArgs,
          update_val \in {<<57>>} :
          AddsRow([op |-> "sheet_update_cells", sheet_name |-> sheet_name,
                   col_name_row_idx |-> col_name_row_idx, update_val |-> update_val,
                   json |-> content_sheet_json],
                  SheetUpdateCells(content_sheet_json, sheet_name, col_name_row_idx,
                                   update_val))

Next ==
    \/ content_add_after_document
    \/ content_add_before_document
    \/ content_add_after_section
    \/ content_add_before_section
    \/ content_replace_section
    \/ content_delete_section
    \/ content_add_after_range
    \/ content_add_before_range
    \/ content_replace_range
    \/ content_delete_range
    \/ content_add_after_list
    \/ content_add_before_list
    \/ content_insert_after_list_item
    \/ content_replace_list_item
    \/ sheet_row_prepend
    \/ sheet_row_append
    \/ sheet_row_insert_before
    \/ sheet_row_insert_after
    \/ sheet_search_update_cells
    \/ sheet_search_update_cell
    \/ sheet_update_cells
    \/ caller_continues

Spec == Init /\ [][Next]_vars

(***************************************************************************)
(* The cache after an edit                                                 *)
(***************************************************************************)
\* the last step made an edit request, and the service accepted it
EditSucceeded == last.op # "" /\ last.outcome = "ok"

\* the markup the cache is to hold after the last edit: the html of the
\* response when it is not empty, else the result of the re-fetch
FreshHtml == IF HtmlTruthy(last.html) THEN last.html ELSE last.refetched

\* C1: after a successful edit made through any public edit operation, once
\* the call has returned, content_html is the html of the edit response when
\* that is not empty and else the result of a full re-fetch, and content_tree
\* is the parse of that content_html.
C1_CacheFollowsEdit ==
    (pc = "returned" /\ EditSucceeded /\ ret.exc = "")
        => /\ content_html = FreshHtml
           /\ content_tree = ParseOrNone(content_html)

\* the same for the edits made through doc_edit_content and
\* sheet_edit_content alone, at every step of a call
ThreadEditRefreshesCache ==
    (EditSucceeded /\ last.op = "edit_thread" /\ ~(last.refetch \in Failures))
        => /\ content_html = FreshHtml
           /\ content_tree = ParseOrNone(content_html)

\* C2: when the edit request of doc_edit_content or sheet_edit_content fails
\* (QuipError, HTTP error, timeout), no local state changes: content_html,
\* content_tree, sheet_names, content_sheet_dataframes and
\* content_sheet_json keep the values they had before the call.
C2_FailedEditChangesNothing ==
    [][(last'.op = "edit_thread" /\ last'.outcome \in Failures) => UNCHANGED cache]_vars

\* the second cell edit of a search timed out, after the first had changed
\* the cache
C2_Witness ==
    /\ pc = "returned"
    /\ last.op = "edit_thread"
    /\ last.outcome = "TimeoutError"
    /\ ret = Raised("TimeoutError")
    /\ kind = "spreadsheet"
    /\ Len(edits) = 2

(***************************************************************************)
(* sheet_search_update_cells: the requests of a call                       *)
(***************************************************************************)
SearchCall == call.op = "sheet_search_update_cells" /\ call.searched
SearchKey == call.search_dct[1][1]
SearchValue == call.search_dct[1][2]
SearchedSheet == SheetNameToTree(call.tree, call.sheet_name)

\* the value the mapping holds for a key
ValueOf(d, k) == d[CHOOSE i \in DOMAIN d : d[i][1] = k][2]

\* the keys of the updates merged with the searched pair, and their values
MergedKeys == {call.updates_dct[i][1] : i \in DOMAIN call.updates_dct} \cup {SearchKey}
MergedValue(k) == IF k = SearchKey THEN SearchValue ELSE ValueOf(call.updates_dct, k)

\* C9: when sheet_search_update_cells(sheet, {h: v}, updates) finds no row
\* whose cell under column h is v, it makes no cell-replace edit and exactly
\* one row-append edit, after the last row of the sheet, whose row holds the
\* values of updates merged with the pair h: v.
C9_MissAppendsOneRow ==
    (SearchCall /\ ~call.found)
        => /\ Len(edits) = 1
           /\ edits[1].op = "edit_thread"
           /\ edits[1].location = 2
           /\ edits[1].anchor = Iter(SearchedSheet, "tr")[Len(Iter(SearchedSheet, "tr"))].id
           /\ edits[1].content.tag = "tr"
           /\ \A k \in MergedKeys : Contains(edits[1].content.cells, MergedValue(k))
           /\ \A val \in {MergedValue(k) : k \in MergedKeys} :
                 val # EmptyStr =>
                     Count(edits[1].content.cells, val)
                         = Cardinality({k \in MergedKeys : MergedValue(k) = val})

\* the search {"Date": "bolt"} with the updates {"Amount": "9"} found no row of
\* "S1" and appended the row ["bolt", "9"] after row "r"
C9_Witness ==
    /\ SearchCall
    /\ ~call.found
    /\ pc = "returned"
    /\ call.search_dct = <<<<StrKey(Date), <<98, 111, 108, 116>>>>>>
    /\ call.updates_dct = <<<<StrKey(Amount), <<57>>>>>>
    /\ Len(edits) = 1
    /\ edits[1].content = RowHtml(<<<<98, 111, 108, 116>>, <<57>>>>)
    /\ edits[1].anchor = <<114>>
    /\ ret = Returned(StatusOk)

\* the row the search is to find: the first row of the sheet with a <td>
\* cell under the searched column whose text is the value, ignoring case
SearchIndex == GetColNameIndex(GetSheetTreeColNames(SearchedSheet), SearchKey, 0)
RowMatches(row) ==
    /\ Len(row.kids) > SearchIndex
    /\ row.kids[SearchIndex + 1].tag = "td"
    /\ Lower(FirstText(row.kids[SearchIndex + 1])) = Lower(SearchValue)
MatchedRow ==
    LET rows == IterFind(SearchedSheet, "tr")
    IN  rows[CHOOSE i \in DOMAIN rows :
                 RowMatches(rows[i]) /\ \A j \in 1..(i - 1) : ~RowMatches(rows[j])]

\* C10: when sheet_search_update_cells finds the row, its requests are one
\* replace edit (location 4) per update key, in mapping order, for each key
\* whose resolved column index i has 1 <= i < number of cells of the row and
\* whose cell has a non-empty anchor, each on that cell's anchor with the new
\* value; the other keys make no request and no row is appended.  A call
\* that an exception ends has made the first of these requests.
C10_HitReplacesCells ==
    (SearchCall /\ call.found)
        => LET row == MatchedRow
               headers == GetSheetTreeColNames(SearchedSheet)
               Index(update) == GetColNameIndex(headers, update[1], 0)
               Qualifies(update) ==
                   /\ 1 <= Index(update)
                   /\ Index(update) < Len(row.kids)
                   /\ StrTruthy(row.kids[Index(update) + 1].id)
               qualified == SelectSeq(call.updates_dct, Qualifies)
           IN  /\ Len(edits) <= Len(qualified)
               /\ \A i \in DOMAIN edits :
                     /\ edits[i].op = "edit_thread"
                     /\ edits[i].location = 4
                     /\ edits[i].anchor = row.kids[Index(qualified[i]) + 1].id
                     /\ edits[i].content = Text(qualified[i][2])
               /\ (pc = "returned" /\ ret.exc = "") => Len(edits) = Len(qualified)

\* the search {"Date": "ACME"} with the updates {"Amount": "9", "Date": ""}
\* found row "r" and replaced its cells "r;2" and "r;1", in that order
C10_Witness ==
    /\ SearchCall
    /\ call.found
    /\ pc = "returned"
    /\ ret = Returned(StatusOk)
    /\ call.updates_dct = <<<<StrKey(Amount), <<57>>>>, <<StrKey(Date), EmptyStr>>>>
    /\ Len(edits) = 2
    /\ edits[1].anchor = <<114, 59, 50>>
    /\ edits[2].anchor = <<114, 59, 49>>
    /\ edits[2].sent_anchor = <<114, 95, 49>>

(***************************************************************************)
(* sheet_update_cells: the cell a "C:n" address names                      *)
(***************************************************************************)
UpdateCall == call.op = "sheet_update_cells" /\ pc = "returned"

\* the parts of the address, the sheet of the model it names, its n-th row
AddressParts == Split(call.col_name_row_idx, 58)
AddressedSheet == DictGet(call.json, call.sheet_name)
AddressedRow == AddressedSheet.rows[PyInt(AddressParts[2])]

\* the call names a sheet of the model and a row 1 .. number of rows of it
AddressesRow ==
    /\ call.col_name_row_idx # NoneStr
    /\ Len(AddressParts) = 2
    /\ ~IntRaises(AddressParts[2])
    /\ Contains(DictKeys(call.json), call.sheet_name)
    /\ PyInt(AddressParts[2]) \in DOMAIN AddressedSheet.rows

\* the index key C resolves to in the header row, NoneIdx when it does not
AddressedIndex ==
    GetColNameIndex(AddressedSheet.headers, StrKey(AddressParts[1]), NoneIdx)

\* C resolves to a column of the sheet, and the row has a cell in it
AddressesCell ==
    /\ AddressesRow
    /\ AddressedIndex >= 0
    /\ AddressedIndex < Len(AddressedSheet.headers)
    /\ Contains(DictKeys(AddressedRow.cells), AddressedSheet.headers[AddressedIndex + 1])

AddressedCell == DictGet(AddressedRow.cells, AddressedSheet.headers[AddressedIndex + 1])

\* the call made one request: replace the section of that cell by the value
ReplacesCell(cell) ==
    /\ Len(edits) = 1
    /\ edits[1].op = "edit_thread"
    /\ edits[1].location = 4
    /\ edits[1].anchor = cell.id
    /\ edits[1].content = Text(call.update_val)

\* C11: sheet_update_cells(sheet, "C:n", v) with a 1-based row number n makes
\* exactly one replace edit, on the anchor content_sheet_json held before the
\* call for the cell of the n-th row in the column that key C resolves to
\* under the column-name resolution (exact match, match ignoring case,
\* numeric, single letter).
C11_UpdateCellsResolvesColumn ==
    (UpdateCall /\ AddressesCell) => ReplacesCell(AddressedCell)

\* the same for a key C that is the text of a header as it stands
UpdateCellsExactHeader ==
    (UpdateCall /\ AddressesRow
        /\ Contains(DictKeys(AddressedRow.cells), AddressParts[1]))
        => ReplacesCell(DictGet(AddressedRow.cells, AddressParts[1]))

(***************************************************************************)
(* The anchors of the requests                                             *)
(***************************************************************************)
\* C12: every anchor an edit request transmits (the section_id of
\* edit_thread, the document_range of edit_range) holds no ';' and is the
\* caller's anchor with each ';' replaced by '_'; an anchor without ';' is
\* transmitted as it is.
C12_AnchorsSanitized ==
    \A i \in DOMAIN edits :
        edits[i].sent_anchor # NoneStr
            => /\ Len(edits[i].sent_anchor) = Len(edits[i].anchor)
               /\ \A j \in DOMAIN edits[i].sent_anchor :
                     /\ edits[i].sent_anchor[j] # 59
                     /\ edits[i].sent_anchor[j] =
                            IF edits[i].anchor[j] = 59 THEN 95 ELSE edits[i].anchor[j]

\* a range edit on the header "H;1;2" transmitted "H_1_2"
C12_Witness ==
    /\ Len(edits) = 1
    /\ edits[1].op = "edit_range"
    /\ edits[1].anchor = <<72, 59, 49, 59, 50>>
    /\ edits[1].sent_anchor = <<72, 95, 49, 95, 50>>

(***************************************************************************)
(* SpecLoad: the construction of a QuipDocument or a QuipSpreadSheet from  *)
(* the pages the service holds, then the calls of Spec on the thread       *)
(* built.  A constructor that raises leaves no thread to call.             *)
(***************************************************************************)
\* content_tree before __init__ assigns it: the attribute does not exist
Unset == [status |-> "unset", root |-> NoNode]

\* the attributes of the class, before __init__ has run
Unloaded ==
    [content_html |-> NoneHtml, content_tree |-> Unset, sheet_names |-> <<>>,
     content_sheet_dataframes |-> <<>>, content_sheet_json |-> <<>>]

\* QuipThread.__init__ from the fetch of the html on: content_html, and
\* content_tree when the parse does not raise
ThreadInit(pages) ==
    LET Parsed(h) ==
            [Unloaded EXCEPT !.content_html = h,
                             !.content_tree = IF ParseRaises(h) THEN Unset
                                              ELSE TreeOf(Parse(h))]
    IN  Parsed(GetThreadHtml(pages))

\* QuipDocument.__init__: QuipThread.__init__, then markdownify(content_html)
DocumentInit(pages) ==
    LET Markdownify(c) == Outcome(c, IF c.content_html.isNone THEN "TypeError" ELSE "")
    IN  Markdownify(ThreadInit(pages))

\* QuipSpreadSheet.__init__: QuipThread.__init__, then the dataframes, the
\* sheet names and the json of the sheets
SpreadSheetInit(pages) ==
    LET Json(c2, json) ==
            IF json.exc # "" THEN Outcome(c2, json.exc)
            ELSE Outcome([c2 EXCEPT !.content_sheet_json = json.val], "")
        Frames(c1, frames) ==
            IF frames.exc # "" THEN Outcome(c1, frames.exc)
            ELSE Json([c1 EXCEPT !.content_sheet_dataframes = frames.val,
                                 !.sheet_names = DictKeys(frames.val)],
                      GetSheetsAsJson(c1.content_html, c1.content_tree))
        Thread(c) == Frames(c, GetSheetsAsDataframes(c.content_html))
    IN  Thread(ThreadInit(pages))

\* the pages the service may hold for the thread: a body, a body after an
\* empty page, nothing but empty pages
LoadPages(k) ==
    {<<b>> : b \in Bodies(k) \cup {DocNoList}} \cup {<<<<>>, DocNoList>>, <<<<>>>>, <<<<>>, <<>>>>}

InitLoad ==
    /\ kind \in {"document", "spreadsheet"}
    /\ content_html = Unloaded.content_html
    /\ content_tree = Unloaded.content_tree
    /\ sheet_names = Unloaded.sheet_names
    /\ content_sheet_dataframes = Unloaded.content_sheet_dataframes
    /\ content_sheet_json = Unloaded.content_sheet_json
    /\ pc = "new"
    /\ call = NoCall
    /\ edits = <<>>
    /\ last = NoLast
    /\ ret = NotCalled

\* the constructor returns the thread, or raises and there is no thread
Constructs(name, pages, o) ==
    /\ call' = [op |-> name, pages |-> pages]
    /\ pc' = IF o.exc = "" THEN "returned" ELSE "failed"
    /\ ret' = IF o.exc = "" THEN Returned(NoneStr) ELSE Raised(o.exc)
    /\ IF o.exc = "" THEN SetCache(o.cache) ELSE UNCHANGED cache
    /\ UNCHANGED <<kind, edits, last>>

document_init ==
    /\ kind = "document"
    /\ pc = "new"
    /\ \E pages \in LoadPages(kind) :
          \E o \in {DocumentInit(pages)} : Constructs("QuipDocument", pages, o)

spreadsheet_init ==
    /\ kind = "spreadsheet"
    /\ pc = "new"
    /\ \E pages \in LoadPages(kind) :
          \E o \in {SpreadSheetInit(pages)} : Constructs("QuipSpreadSheet", pages, o)

NextLoad ==
    \/ document_init
    \/ spreadsheet_init
    \/ Next

SpecLoad == InitLoad /\ [][NextLoad]_vars

\* the constructor was called on a thread whose markup does not parse
CorruptLoad ==
    /\ call.op \in {"QuipDocument", "QuipSpreadSheet"}
    /\ ParseRaises(GetThreadHtml(call.pages))

\* the operations that resolve their address in content_tree
ResolvingOps ==
    {"content_add_after_list", "content_add_before_list", "content_insert_after_list_item",
     "content_replace_list_item", "sheet_row_prepend", "sheet_row_append",
     "sheet_row_insert_before", "sheet_row_insert_after", "sheet_search_update_cells"}

\* the call gave every argument the operation requires
GaveArguments ==
    /\ ret # Raised("Exception")
    /\ ret # Raised("TypeError")
    /\ call.op = "sheet_search_update_cells" => Len(call.search_dct) > 0

\* C14: corrupted markup on the initial load does not fail the construction:
\* the thread exists and its content tree is absent; every call that
\* addresses content then fails; a later reload from valid markup makes the
\* tree present again.
C14_CorruptLoadKeepsThread ==
    /\ CorruptLoad => (pc = "returned" /\ content_tree.status # "tree")
    /\ (pc = "returned" /\ call.op \in ResolvingOps /\ Len(edits) = 0
            /\ content_tree.status # "tree" /\ GaveArguments)
           => ret.exc # ""
    /\ (EditSucceeded /\ last.op = "edit_thread" /\ HtmlTruthy(last.html)
            /\ ~ParseRaises(last.html))
           => content_tree = TreeOf(Parse(last.html))

\* the calls on a thread whose tree a reload has made absent, and the reload
\* from valid markup
AbsentTreeFailsResolution ==
    /\ (pc = "returned" /\ call.op \in ResolvingOps /\ Len(edits) = 0
            /\ content_tree.status # "tree" /\ GaveArguments)
           => ret.exc = "AttributeError"
    /\ (EditSucceeded /\ last.op = "edit_thread" /\ HtmlTruthy(last.html)
            /\ ~ParseRaises(last.html))
           => content_tree = TreeOf(Parse(last.html))

\* no constructor returns a thread whose tree is absent
LoadedThreadHasTree ==
    (pc # "new" /\ pc # "failed" /\ call.op \in {"QuipDocument", "QuipSpreadSheet"})
        => content_tree.status = "tree"

(***************************************************************************)
(* The write operations of a QuipDocument and their required arguments     *)
(***************************************************************************)
ContentOps == {"content_add_after_document", "content_add_before_document"}
SectionOps == {"content_add_after_section", "content_add_before_section",
               "content_replace_section"}
RangeOps == {"content_add_after_range", "content_add_before_range", "content_replace_range"}
ListOps == {"content_add_after_list", "content_add_before_list"}
ListItemOps == {"content_insert_after_list_item", "content_replace_list_item"}

\* the call c left a required content or address argument None
MissesArgument(c) ==
    \/ c.op \in ContentOps /\ c.content = NoContent
    \/ c.op \in SectionOps /\ (c.content = NoContent \/ c.section_id = NoneStr)
    \/ c.op = "content_delete_section" /\ c.section_id = NoneStr
    \/ c.op \in RangeOps /\ (c.content = NoContent \/ c.header = NoneStr)
    \/ c.op = "content_delete_range" /\ c.header = NoneStr
    \/ c.op \in ListOps /\ (c.content = NoContent \/ c.list_section_id = NoneStr)
    \/ c.op \in ListItemOps
           /\ (c.content = NoContent \/ c.list_section_id = NoneStr \/ c.item_idx = <<>>)

\* C17: a write operation of a QuipDocument called with a required content
\* or address argument None raises before any request is sent, and
\* content_html and content_tree stay as they were.
C17_MissingArgumentRejected ==
    [][(pc = "idle" /\ MissesArgument(call'))
          => /\ pc' = "returned"
             /\ ret'.exc # ""
             /\ edits' = <<>>
             /\ last' = NoLast
             /\ UNCHANGED <<content_html, content_tree>>]_vars

\* content_replace_list_item("x", list_section_id="L", item_idx=None) raised
\* and sent nothing
C17_Witness ==
    /\ pc = "returned"
    /\ call.op = "content_replace_list_item"
    /\ call.content = Text(<<120>>)
    /\ call.list_section_id = <<76>>
    /\ call.item_idx = <<>>
    /\ ret = Raised("Exception")
    /\ edits = <<>>

(***************************************************************************)
(* Placements relative to an anchor                                        *)
(***************************************************************************)
\* C20: no edit request with a placement relative to a section (codes 2 to
\* 5) is transmitted without an anchor: when the resolution of a list
\* position or of a row position yields a null anchor, the operation sends
\* no request.
C20_SectionPlacementHasAnchor ==
    \A i \in DOMAIN edits :
        (edits[i].op = "edit_thread" /\ edits[i].location \in 2..5)
            => edits[i].sent_anchor # NoneStr

\* the same for the requests of the operations that are given their anchor
\* by the caller
GivenAnchorIsSent ==
    (call.op \in SectionOps \cup {"content_delete_section"})
        => \A i \in DOMAIN edits : edits[i].sent_anchor # NoneStr

\* a list operation on the empty list "L" sent its request without anchor
NullAnchorSent ==
    /\ call.op \in ListOps
    /\ call.list_section_id = <<76>>
    /\ Len(edits) = 1
    /\ edits[1].location \in 2..5
    /\ edits[1].sent_anchor = NoneStr

(***************************************************************************)
(* The sheet state derived after an edit                                   *)
(***************************************************************************)
\* a spreadsheet edit went through sheet_edit_content and reload_content
\* and the call has returned without an exception
SheetEditReloaded ==
    /\ kind = "spreadsheet"
    /\ pc = "returned"
    /\ EditSucceeded
    /\ ret.exc = ""

\* C21: after every successful spreadsheet edit (sheet_edit_content followed
\* by reload_content) the derived sheet state is that of the refreshed
\* markup: sheet_names, the keys of content_sheet_dataframes and the keys of
\* content_sheet_json are all the titles of the tables of the new
\* content_html.
C21_SheetStateFollowsEdit ==
    SheetEditReloaded
        => /\ sheet_names = TableNames(content_html)
           /\ DictKeys(content_sheet_dataframes) = TableNames(content_html)
           /\ DictKeys(content_sheet_json) = TableNames(content_html)

\* the two mappings are those of the refreshed markup
SheetMappingsFollowEdit ==
    SheetEditReloaded
        => /\ DictKeys(content_sheet_dataframes) = TableNames(content_html)
           /\ DictKeys(content_sheet_json) = TableNames(content_html)

\* sheet_names after a reload holds the keys content_sheet_dataframes had
\* before it
SheetNamesOneReloadBehind ==
    [][(kind = "spreadsheet" /\ last'.op = "edit_thread" /\ last'.outcome = "ok"
            /\ ret'.exc = "")
          => sheet_names' = DictKeys(content_sheet_dataframes)]_vars

\* an edit has brought a second sheet, which sheet_names does not show
SheetNamesStale ==
    /\ SheetEditReloaded
    /\ TableNames(content_html) = <<S1, S2>>
    /\ sheet_names = <<S1>>

(***************************************************************************)
(* Rows given as a mapping, added to a named sheet                         *)
(***************************************************************************)
RowOps == {"sheet_row_append", "sheet_row_prepend", "sheet_row_insert_before",
           "sheet_row_insert_after"}

\* the call c adds a row given as a mapping: a row operation with a dict, or
\* a search that found no row
AddsDictRow(c) ==
    \/ c.op \in RowOps /\ Len(c.rows) = 1 /\ c.rows[1].t = "dict"
    \/ c.op = "sheet_search_update_cells" /\ c.searched /\ ~c.found

\* the mapping of that row
RowDict(c) ==
    IF c.op \in RowOps THEN c.rows[1].dct
    ELSE DictSet(c.updates_dct, c.search_dct[1][1], c.search_dct[1][2])

\* the call that starts adds a row given as a mapping to a named sheet and
\* makes its request
AddsDictRowToNamedSheet ==
    /\ pc = "idle"
    /\ AddsDictRow(call')
    /\ StrTruthy(call'.sheet_name)
    /\ Len(edits') = 1

\* C22: a row given as a header->value mapping and added to a named sheet S
\* (sheet_row_append, sheet_row_prepend, sheet_row_insert_*, the insert
\* branch of sheet_search_update_cells) has its cells laid out against the
\* header row of S itself, not against that of another table.
C22_DictRowLaidOutOnNamedSheet ==
    [][AddsDictRowToNamedSheet
          => edits'[1].content
                 = RowHtml(DictToCells(DictHeaders(content_tree, call'.sheet_name),
                                       RowDict(call')))]_vars

\* the cells are laid out against the header row of the first table
DictRowLaidOutOnFirstSheet ==
    [][AddsDictRowToNamedSheet
          => edits'[1].content
                 = RowHtml(DictToCells(DictHeaders(content_tree, NoneStr),
                                       RowDict(call')))]_vars

\* {"Amount": "2.24"} appended to "S2", whose first column is Amount, went
\* out as the row ["", "2.24"] of the columns of "S1"
RowOfOtherSheet ==
    /\ call.op = "sheet_row_append"
    /\ call.sheet_name = S2
    /\ Len(edits) = 1
    /\ edits[1].anchor = <<115>>
    /\ edits[1].content = RowHtml(<<EmptyStr, <<50, 46, 50, 52>>>>)

(***************************************************************************)
(* SpecKey: sheet_search_update_cells with one update, whose key is a      *)
(* header name, a letter or a number, on the spreadsheets above            *)
(***************************************************************************)
\* the keys of the update: "Date", "date", "Amount", "B", "C", "1", "2", 2
\* and "Total"
KeyArgs ==
    {StrKey(Date), StrKey(<<100, 97, 116, 101>>), StrKey(Amount), StrKey(<<66>>),
     StrKey(<<67>>), StrKey(<<49>>), StrKey(<<50>>), IntKey(2),
     StrKey(<<84, 111, 116, 97, 108>>)}

\* the updates {k: "9"}
KeyUpdates == {<<<<k, <<57>>>>>> : k \in KeyArgs}

\* the searches {"Date": "ACME"} and {"Amount": "7"}
KeySearches ==
    {<<<<StrKey(Date), <<65, 67, 77, 69>>>>>>, <<<<StrKey(Amount), <<55>>>>>>}

InitKey ==
    /\ \E body \in SheetBodies : Loaded("spreadsheet", body)
    /\ pc = "idle"
    /\ call = NoCall
    /\ edits = <<>>
    /\ last = NoLast
    /\ ret = NotCalled

sheet_search_update_cells_by_key ==
    /\ kind = "spreadsheet"
    /\ SearchUpdateCells(KeySearches, KeyUpdates)

NextKey ==
    \/ sheet_search_update_cells_by_key
    \/ sheet_search_update_cell
    \/ caller_continues

SpecKey == InitKey /\ [][NextKey]_vars

\* the search found its row and replaced a cell for the key of the update
KeyReplaced == SearchCall /\ call.found /\ Len(edits) = 1

UpdateKey == call.updates_dct[1][1]

\* the index, in the full row, of the cell the search replaced
ReplacedColumn ==
    CHOOSE i \in 0..(Len(MatchedRow.kids) - 1) : MatchedRow.kids[i + 1].id = edits[1].anchor

\* the cells _dict_to_html builds for the same key against the headers of
\* the same sheet, the first header left out, and the index in the full row
\* of the column that holds the value: cell p of a new row lies under
\* column p + 1 of the full row
NewRowCells ==
    DictToCells(SubSeq(call.headers, 2, Len(call.headers)), <<<<UpdateKey, <<57>>>>>>)
PlacedColumn == (CHOOSE p \in 0..(Len(NewRowCells) - 1) : NewRowCells[p + 1] = <<57>>) + 1

\* the key is the text of a header, but for case
NamesHeader(k) == Contains(LowerHeaders(call.headers), Lower(StrOfKey(k)))

\* C23: a column key addresses the same sheet column in every operation: the
\* column whose cell sheet_search_update_cells replaces for a key in an
\* existing row is the column in which _dict_to_html places the value for
\* that key in a new row, the full header row holding the first index column
\* and the cells of a new row leaving it out.
C23_KeyAddressesSameColumn ==
    KeyReplaced => ReplacedColumn = PlacedColumn

\* a key that names a header addresses the same column in both; a letter or
\* a number addresses, in a new row, the column to the right of the one
\* whose cell the search replaces
KeyShiftsInNewRow ==
    KeyReplaced
        => IF NamesHeader(UpdateKey) THEN PlacedColumn = ReplacedColumn
           ELSE PlacedColumn = ReplacedColumn + 1

\* the key "B" replaced the cell of column 2 of the row, "r;2" under Amount,
\* while a new row holds the value of "B" in its third cell
LetterKeyShifted ==
    /\ KeyReplaced
    /\ UpdateKey = StrKey(<<66>>)
    /\ edits[1].anchor = <<114, 59, 50>>
    /\ NewRowCells = <<EmptyStr, EmptyStr, <<57>>>>

(***************************************************************************)
(* The rows at which a row is added                                        *)
(***************************************************************************)
\* the rows of the sheet the call c names, in the tree
RowsOf(tree, c) == Iter(SheetNameToTree(tree, c.sheet_name), "tr")

\* the call c gives one row, a list or a mapping, for a sheet of the tree
\* that has a header row and a data row
GivesRow(tree, c) ==
    /\ c.op \in RowOps
    /\ Len(c.rows) = 1
    /\ c.rows[1].t \in {"list", "dict"}
    /\ tree.status = "tree"
    /\ SheetNameToTree(tree, c.sheet_name) # NoNode
    /\ Len(RowsOf(tree, c)) >= 2

\* the call c gives the index of a row of the sheet
GivesRowIdx(tree, c) ==
    /\ c.row_idx # <<>>
    /\ c.row_idx[1] \in 0..(Len(RowsOf(tree, c)) - 1)

\* the one request of the step has that placement and that row as anchor
PlacesAt(location, row) ==
    /\ Len(edits') = 1
    /\ edits'[1].op = "edit_thread"
    /\ edits'[1].location = location
    /\ edits'[1].anchor = row.id

\* C24: for a sheet with a header row and at least one data row,
\* sheet_row_append sends one edit placed after the last row of the sheet,
\* sheet_row_prepend one edit placed before the row of index 1 (the first
\* row after the header), and sheet_row_insert_before / _after with
\* row_idx = i, i = 0 included, one edit anchored at the row of index i with
\* the placement of the operation.
C24_RowPlacementTargets ==
    [][(pc = "idle" /\ GivesRow(content_tree, call'))
          => LET rows == RowsOf(content_tree, call')
             IN  CASE call'.op = "sheet_row_append" ->
                          PlacesAt(AFTER_SECTION, rows[Len(rows)])
                   [] call'.op = "sheet_row_prepend" ->
                          PlacesAt(BEFORE_SECTION, rows[2])
                   [] call'.op = "sheet_row_insert_before" ->
                          GivesRowIdx(content_tree, call')
                              => PlacesAt(BEFORE_SECTION, rows[call'.row_idx[1] + 1])
                   [] call'.op = "sheet_row_insert_after" ->
                          GivesRowIdx(content_tree, call')
                              => PlacesAt(AFTER_SECTION, rows[call'.row_idx[1] + 1])]_vars

\* a row inserted before row 0 of "S2" went out placed before its header
\* row "i"
C24_Witness ==
    /\ pc = "returned"
    /\ call.op = "sheet_row_insert_before"
    /\ call.sheet_name = S2
    /\ call.row_idx = <<0>>
    /\ Len(edits) = 1
    /\ edits[1].location = BEFORE_SECTION
    /\ edits[1].anchor = <<105>>
    /\ ret = Returned(StatusOk)

\* a row appended to "S1" of the ledger went out placed after its last row
\* "q", and a row prepended before its first data row "r"
AppendedAfterLastRow ==
    /\ call.op = "sheet_row_append"
    /\ call.sheet_name = S1
    /\ Len(edits) = 1
    /\ edits[1].location = AFTER_SECTION
    /\ edits[1].anchor = <<113>>
PrependedBeforeFirstDataRow ==
    /\ call.op = "sheet_row_prepend"
    /\ call.sheet_name = NoneStr
    /\ Len(edits) = 1
    /\ edits[1].location = BEFORE_SECTION
    /\ edits[1].anchor = <<114>>

=============================================================================
